---- MODULE Spec2Model ----
(***************************************************************************)
(* Model of backend/main.py: the in-memory RateLimiter (budget windows and *)
(* model cooldowns), the call_groq dispatch loop, the generate_quiz        *)
(* reconciliation (partition, one top-up, trim) and the output sanitizer.  *)
(*                                                                         *)
(* Time is time.time() in whole seconds.  A limiter is a record of the     *)
(* RateLimiter fields; its methods are operators from (limiter, clock,     *)
(* arguments) to the limiter after the call.                               *)
(***************************************************************************)
EXTENDS Integers, Sequences, FiniteSets, TLC

VARIABLES
    now,        \* time.time(), seconds
    lim,        \* the module-level `limiter`: counters and window epochs
    cooldown,   \* limiter.model_cooldown_until: model -> expiry (0 = no entry)
    last,       \* the latest tracker call: its arguments and what it did
    prev,       \* the tracker call before `last`
    cdlog,      \* per model, the two latest set_cooldown calls
    ncalls,     \* number of limiter calls made so far (unit specification)
    quota,      \* per caller: how many requests the thread serves, with which caps
    pc,         \* per caller: where its call_groq invocation stands
    job,        \* per caller: the locals of its call_groq invocation
    quiz,       \* the generate_quiz request being served, if any
    txt,        \* a model output text and what the sanitizer made of it
    resp,       \* per caller: the provider response its call_groq handled last
    raw,        \* a model output text and what extract_json_array made of it
    fix,        \* an mcq item and what _repair_mcq made of it
    grade,      \* the grade_short_answer request being served, if any
    events,     \* socket.io events: waiting for the event loop, and being handled
    part        \* a parsed array and what _filter_and_partition made of it

limvars == <<now, lim, cooldown, last, prev, cdlog, ncalls>>
morevars == <<raw, fix, events, part>>
dispvars == <<quota, pc, job, quiz, txt, resp, grade, morevars>>
vars == <<now, lim, cooldown, last, prev, cdlog, ncalls, quota, pc, job, quiz, txt,
          resp, raw, fix, grade, events, part>>

Max(a, b) == IF a >= b THEN a ELSE b
Min(a, b) == IF a <= b THEN a ELSE b

(***************************************************************************)
(* Configuration.                                                          *)
(***************************************************************************)
\* Soft budgets GROQ_RPM / GROQ_RPD / GROQ_TPM / GROQ_TPD (environment
\* settings).  The request budgets and the daily token budget are set low
\* enough for a few requests to exhaust them; GROQ_TPM is the default.
GROQ_RPM == 2
GROQ_RPD == 3
GROQ_TPM == 12000
GROQ_TPD == 16000

\* Number of distinct models in _model_list_preference().
NumModels == 2
Models == 1..NumModels

SecPerMin == 60
SecPerDay == 86400
CooldownShort == 60
CooldownLong == 21600

\* The instants at which the clock is sampled: both sides of a minute
\* boundary, the expiry of a long cooldown set at 0, a day boundary.
Instants == {0, SecPerMin - 1, SecPerMin, CooldownLong, SecPerDay}
StartInstants == {0}

(***************************************************************************)
(* RateLimiter                                                             *)
(***************************************************************************)
now_minute(t) == t \div SecPerMin
now_day(t) == t \div SecPerDay

\* RateLimiter.__init__ at clock t
NewLimiter(t) ==
    [rpm_used |-> 0, tpm_used |-> 0, rpd_used |-> 0, tpd_used |-> 0,
     minute_epoch |-> now_minute(t), day_epoch |-> now_day(t)]

roll_minute_keeps_count(l, t) ==
    LET a == IF now_minute(t) # l.minute_epoch
             THEN [l EXCEPT !.minute_epoch = now_minute(t), !.tpm_used = 0]
             ELSE l
    IN  IF now_day(t) # a.day_epoch
        THEN [a EXCEPT !.day_epoch = now_day(t), !.rpd_used = 0, !.tpd_used = 0]
        ELSE a

maybe_roll_windows(l, t) ==
    LET a == IF now_minute(t) # l.minute_epoch
             THEN [l EXCEPT !.minute_epoch = now_minute(t),
                            !.rpm_used = 0, !.tpm_used = 0]
             ELSE l
    IN  IF now_day(t) # a.day_epoch
        THEN [a EXCEPT !.day_epoch = now_day(t), !.rpd_used = 0, !.tpd_used = 0]
        ELSE a

\* is_model_on_cooldown: `until and time.time() < until`
is_model_on_cooldown(cd, t, m) == cd[m] # 0 /\ t < cd[m]

set_cooldown_overwrite(cd, t, m, seconds) == [cd EXCEPT ![m] = t + seconds]

set_cooldown(cd, t, m, seconds) ==
    [cd EXCEPT ![m] = Max(cd[m], t + seconds)]

\* can_afford returns (ok, reason); the limiter after the call is
\* maybe_roll_windows(l, t).
can_afford(l, t, est) ==
    LET r == maybe_roll_windows(l, t)
    IN  IF r.rpm_used + 1 > GROQ_RPM THEN "rpm_exhausted"
        ELSE IF r.rpd_used + 1 > GROQ_RPD THEN "rpd_exhausted"
        ELSE IF r.tpm_used + est > GROQ_TPM THEN "tpm_exhausted"
        ELSE IF r.tpd_used + est > GROQ_TPD THEN "tpd_exhausted"
        ELSE ""

reserve(l, t, est) ==
    LET r == maybe_roll_windows(l, t)
    IN  [r EXCEPT !.rpm_used = @ + 1, !.rpd_used = @ + 1,
                  !.tpm_used = @ + est, !.tpd_used = @ + est]

adjust_adds_actual(l, t, est_reserved, actual_total_tokens) ==
    LET r == maybe_roll_windows(l, t)
    IN  [r EXCEPT !.tpm_used = Max(0, @ + actual_total_tokens),
                  !.tpd_used = Max(0, @ + actual_total_tokens)]

adjust_after_response(l, t, est_reserved, actual_total_tokens) ==
    LET r == maybe_roll_windows(l, t)
        delta == actual_total_tokens - est_reserved
    IN  [r EXCEPT !.tpm_used = Max(0, @ + delta),
                  !.tpd_used = Max(0, @ + delta)]

(***************************************************************************)
(* The limiter driven call by call (SpecLimiter).                          *)
(***************************************************************************)
MaxCalls == 3
Estimates == {0, 6375}
Actuals == {0, 3375, 7000}
Durations == {CooldownShort, CooldownLong}

NoCall == [op |-> "none", est |-> 0, actual |-> 0,
           pre |-> NewLimiter(0), mid |-> NewLimiter(0)]
NoCd == [n |-> 0, s1 |-> 0, t1 |-> 0, e1 |-> 0, s2 |-> 0, t2 |-> 0]

\* What a tracker call leaves in the history: `pre` is the limiter at entry,
\* `mid` the limiter right after the call's own _maybe_roll_windows().
Called(op, est, actual) ==
    /\ prev' = last
    /\ last' = [op |-> op, est |-> est, actual |-> actual,
                pre |-> lim, mid |-> maybe_roll_windows(lim, now)]
    /\ ncalls' = ncalls + 1

LimiterInit ==
    /\ now \in StartInstants
    /\ lim = NewLimiter(now)
    /\ cooldown = [m \in Models |-> 0]
    /\ last = NoCall
    /\ prev = NoCall
    /\ cdlog = [m \in Models |-> NoCd]
    /\ ncalls = 0

Tick ==
    /\ \E t \in Instants : t > now /\ now' = t
    /\ UNCHANGED <<lim, cooldown, last, prev, cdlog, ncalls>>
    /\ UNCHANGED dispvars

CallCanAfford ==
    /\ ncalls < MaxCalls
    /\ \E e \in Estimates :
        /\ lim' = maybe_roll_windows(lim, now)
        /\ Called("can_afford", e, 0)
    /\ UNCHANGED <<now, cooldown, cdlog>>
    /\ UNCHANGED dispvars

CallReserve ==
    /\ ncalls < MaxCalls
    /\ \E e \in Estimates :
        /\ lim' = reserve(lim, now, e)
        /\ Called("reserve", e, 0)
    /\ UNCHANGED <<now, cooldown, cdlog>>
    /\ UNCHANGED dispvars

CallAdjust ==
    /\ ncalls < MaxCalls
    /\ \E e \in Estimates, a \in Actuals :
        /\ lim' = adjust_after_response(lim, now, e, a)
        /\ Called("adjust", e, a)
    /\ UNCHANGED <<now, cooldown, cdlog>>
    /\ UNCHANGED dispvars

CallSetCooldown ==
    /\ ncalls < MaxCalls
    /\ \E m \in Models, s \in Durations :
        /\ cooldown' = set_cooldown(cooldown, now, m, s)
        /\ cdlog' = [cdlog EXCEPT ![m] =
                        [n |-> Min(2, @.n + 1), s1 |-> @.s2, t1 |-> @.t2,
                         e1 |-> cooldown[m], s2 |-> s, t2 |-> now]]
    /\ ncalls' = ncalls + 1
    /\ UNCHANGED <<now, lim, last, prev>>
    /\ UNCHANGED dispvars


(***************************************************************************)
(* Item values.  A Python str is a sequence of one-character strings; the  *)
(* characters with a name are "NL" "TAB" "CR" "FF" (whitespace), "BT" (the *)
(* backtick), "BOM" (U+FEFF), "DQ" "SQ" (the                               *)
(* straight quotes) and "LDQ" "RDQ" "LSQ" "RSQ" (the curly ones).  A JSON  *)
(* value is a record: k says whether it is a str, a bool or None/absent.   *)
(***************************************************************************)
StrV(str) == [k |-> "str", s |-> str, b |-> FALSE]
BoolV(bool) == [k |-> "bool", s |-> <<>>, b |-> bool]
NoneV == [k |-> "none", s |-> <<>>, b |-> FALSE]

Whitespace == {" ", "NL", "TAB", "CR", "FF"}

\* Code-point order of the characters used, for str comparison.
CharOrder ==
    <<"TAB", "NL", "FF", "CR", " ", "!", "DQ", "SQ", ",", "-", ".", "/", "<",
      ">", "A", "B", "C", "E", "F", "H", "I", "J", "K", "L", "M", "N", "O",
      "P", "R", "S", "T", "U", "[", "]", "BT", "a", "b", "c", "d", "e", "f",
      "h", "i", "j", "k", "l", "m", "n", "o", "p", "q", "r", "s", "t", "u",
      "x", "y", "z", "LSQ", "RSQ", "LDQ", "RDQ", "BOM">>
CharCode(ch) == CHOOSE i \in 1..Len(CharOrder) : CharOrder[i] = ch

RECURSIVE StrLess(_, _)
StrLess(x, y) ==
    IF y = <<>> THEN FALSE
    ELSE IF x = <<>> THEN TRUE
    ELSE IF Head(x) = Head(y) THEN StrLess(Tail(x), Tail(y))
    ELSE CharCode(Head(x)) < CharCode(Head(y))

\* str.lower() on the letters used
LowerChar(ch) ==
    CASE ch = "A" -> "a" [] ch = "E" -> "e" [] ch = "F" -> "f"
      [] ch = "L" -> "l" [] ch = "P" -> "p" [] ch = "R" -> "r"
      [] ch = "S" -> "s" [] ch = "T" -> "t" [] ch = "U" -> "u"
      [] ch = "H" -> "h" [] ch = "I" -> "i" [] ch = "J" -> "j"
      [] ch = "K" -> "k" [] ch = "N" -> "n" [] ch = "O" -> "o"
      [] ch = "B" -> "b" [] ch = "C" -> "c" [] ch = "M" -> "m"
      [] OTHER -> ch
Lower(str) == [i \in 1..Len(str) |-> LowerChar(str[i])]

RECURSIVE LStripChars(_, _)
LStripChars(str, chars) ==
    IF str # <<>> /\ Head(str) \in chars
    THEN LStripChars(Tail(str), chars) ELSE str

RECURSIVE RStripChars(_, _)
RStripChars(str, chars) ==
    IF str # <<>> /\ str[Len(str)] \in chars
    THEN RStripChars(SubSeq(str, 1, Len(str) - 1), chars) ELSE str

\* str.strip(chars)
StripChars(str, chars) == RStripChars(LStripChars(str, chars), chars)

LStrip(str) == LStripChars(str, Whitespace)

\* str.strip()
Strip(str) == StripChars(str, Whitespace)

ascii_quotes(str) ==
    [i \in 1..Len(str) |->
        CASE str[i] \in {"LDQ", "RDQ"} -> "DQ"
          [] str[i] \in {"LSQ", "RSQ"} -> "SQ"
          [] OTHER -> str[i]]

\* re.sub(r"\s+", " ", .)
RECURSIVE CollapseSpaces(_)
CollapseSpaces(str) ==
    IF str = <<>> THEN <<>>
    ELSE IF Head(str) \in Whitespace
         THEN <<" ">> \o CollapseSpaces(LStrip(str))
         ELSE <<Head(str)>> \o CollapseSpaces(Tail(str))

norm_text_keeps_spaces(str) == Strip(ascii_quotes(str))

norm_text(str) == Strip(CollapseSpaces(ascii_quotes(str)))

\* What a call gives: the value it returns (exc is ""), or the exception it
\* raises, val then being what the call leaves of its argument.
Returns(val) == [exc |-> "", val |-> val]
Raises(exc, val) == [exc |-> exc, val |-> val]

\* _norm_text(v) for any JSON value: `s or ""` turns None and False into "",
\* and keeps a truthy value that is not a str, whose .replace raises
\* AttributeError.
NormV(v) ==
    IF v.k = "str" THEN Returns(norm_text(v.s))
    ELSE IF v.k = "bool" /\ v.b THEN Raises("AttributeError", <<>>)
    ELSE Returns(<<>>)

(***************************************************************************)
(* difflib: SequenceMatcher(None, a, b).ratio() and get_close_matches.     *)
(***************************************************************************)
RECURSIVE RunLen(_, _, _, _, _, _)
\* how far a[i..] and b[j..] agree, inside a[..ahi) and b[..bhi)
RunLen(a, i, ahi, b, j, bhi) ==
    IF i < ahi /\ j < bhi /\ a[i] = b[j]
    THEN 1 + RunLen(a, i + 1, ahi, b, j + 1, bhi) ELSE 0

\* the element of a one-element set
The(S) == CHOOSE x \in S : TRUE

\* find_longest_match: the longest block, the earliest in a, then in b;
\* <<alo, blo, 0>> when nothing matches.  Ranges are lo inclusive, hi exclusive.
LongestOf(blocks, alo, blo) ==
    IF blocks = {} THEN <<alo, blo, 0>>
    ELSE CHOOSE c \in blocks :
            \A d \in blocks :
                \/ c[3] > d[3]
                \/ /\ c[3] = d[3]
                   /\ \/ c[1] < d[1]
                      \/ c[1] = d[1] /\ c[2] <= d[2]

find_longest_match(a, alo, ahi, b, blo, bhi) ==
    LongestOf({<<c[1], c[2], RunLen(a, c[1], ahi, b, c[2], bhi)>> :
                  c \in {d \in (alo..(ahi - 1)) \X (blo..(bhi - 1)) :
                            a[d[1]] = b[d[2]]}},
              alo, blo)

RECURSIVE MatchCount(_, _, _, _, _, _)
\* the total size of get_matching_blocks()
MatchCount(a, alo, ahi, b, blo, bhi) ==
    The({IF m[3] = 0 THEN 0
         ELSE m[3]
              + MatchCount(a, alo, m[1], b, blo, m[2])
              + MatchCount(a, m[1] + m[3], ahi, b, m[2] + m[3], bhi) :
         m \in {find_longest_match(a, alo, ahi, b, blo, bhi)}})

Matches(a, b) == MatchCount(a, 1, Len(a) + 1, b, 1, Len(b) + 1)

\* ratio() = 2.0 * matches / total, and 1.0 when total is 0: a score is the
\* pair <<matches, total>>.
Score(a, b) == <<Matches(a, b), Len(a) + Len(b)>>

ScoreAtLeast(sc, num, den) ==
    IF sc[2] = 0 THEN TRUE ELSE 2 * sc[1] * den >= num * sc[2]

ScoreLess(sc, tc) ==
    IF sc[2] = 0 THEN FALSE
    ELSE IF tc[2] = 0 THEN 2 * sc[1] < sc[2]
    ELSE sc[1] * tc[2] < tc[1] * sc[2]

\* ratio(a, b) >= num/den
RatioAtLeast(a, b, num, den) == ScoreAtLeast(Score(a, b), num, den)

\* the largest (score, str) among the scored possibilities at or above the
\* cutoff, as a sequence of at most one str
BestOf(scored) ==
    IF scored = {} THEN <<>>
    ELSE <<(CHOOSE x \in scored :
               \A y \in scored :
                   \/ ScoreLess(y[1], x[1])
                   \/ ~ScoreLess(x[1], y[1]) /\ ~StrLess(x[2], y[2]))[2]>>

\* get_close_matches(word, possibilities, n=1, cutoff=0.6)
get_close_matches(word, possibilities) ==
    BestOf({x \in {<<Score(possibilities[i], word), possibilities[i]>> :
                      i \in 1..Len(possibilities)} :
               ScoreAtLeast(x[1], 6, 10)})

(***************************************************************************)
(* Normalization, repair and validation of quiz items.                     *)
(***************************************************************************)
TypeOrder == <<"mcq", "short_answer", "true_false", "identification", "essay">>
Types == {TypeOrder[i] : i \in 1..Len(TypeOrder)}

\* A JSON array element: a dict (with its "type", "question", "choices" and
\* "answer"; choices_is_list says whether "choices" is a list) or not a dict.
MkItem(type, question, is_list, choices, answer) ==
    [dict |-> TRUE, type |-> type, question |-> question,
     choices_is_list |-> is_list, choices |-> choices, answer |-> answer]
NonDict == [MkItem("", NoneV, FALSE, <<>>, NoneV) EXCEPT !.dict = FALSE]

MapSeq(f(_), seq) == [i \in 1..Len(seq) |-> f(seq[i])]

\* a list comprehension with a condition
Filter(seq, keep(_)) == SelectSeq(seq, keep)

\* Python seq[:n]
Take(seq, n) ==
    IF n >= 0 THEN SubSeq(seq, 1, Min(n, Len(seq)))
    ELSE SubSeq(seq, 1, Max(0, Len(seq) + n))

InSeq(x, seq) == \E i \in 1..Len(seq) : seq[i] = x

NormIfStr(v) == IF v.k = "str" THEN StrV(norm_text(v.s)) ELSE v

normalize_item(item) ==
    LET q == [item EXCEPT !.question = NormIfStr(@)]
    IN  IF q.type = "mcq"
        THEN [q EXCEPT !.choices = IF q.choices_is_list
                                   THEN MapSeq(NormIfStr, @) ELSE @,
                       !.answer = NormIfStr(@)]
        ELSE IF q.type = "short_answer"
        THEN [q EXCEPT !.answer = NormIfStr(@)]
        ELSE IF q.type = "true_false" /\ q.answer.k = "str"
        THEN LET str == Lower(Strip(q.answer.s))
             IN  IF str = <<"t", "r", "u", "e">>
                 THEN [q EXCEPT !.answer = BoolV(TRUE)]
                 ELSE IF str = <<"f", "a", "l", "s", "e">>
                 THEN [q EXCEPT !.answer = BoolV(FALSE)]
                 ELSE q
        ELSE q

normalize_items(items) ==
    LET IsDict(it) == it.dict
    IN  MapSeq(normalize_item, Filter(items, IsDict))

RECURSIVE answers_match(_, _)
\* _answers_match(ans, choices), ans a str: the choices are normalized one
\* by one until one matches
answers_match(ans, choices) ==
    IF choices = <<>> THEN Returns(FALSE)
    ELSE The({IF c.exc # "" THEN Raises(c.exc, FALSE)
              ELSE IF c.val = norm_text(ans) THEN Returns(TRUE)
              ELSE answers_match(ans, Tail(choices)) :
              c \in {NormV(Head(choices))}})

RECURSIVE TrimFill(_, _)
\* the second loop of the trim: append the str choices not yet in `new`
\* until there are 4
TrimFill(new, rest) ==
    IF rest = <<>> \/ Len(new) >= 4 THEN new
    ELSE IF ~InSeq(Head(rest), new) /\ Head(rest).k = "str"
         THEN TrimFill(Append(new, Head(rest)), Tail(rest))
         ELSE TrimFill(new, Tail(rest))

\* the first str choice whose normal form is `norm`, as a sequence of at
\* most one choice
FirstNormEqual(choices, norm) ==
    LET IsHit(c) == c.k = "str" /\ norm_text(c.s) = norm
    IN  Take(Filter(choices, IsHit), 1)

trim_choices_first_four(choices, ans) == Take(choices, 4)

trim_choices(choices, ans) ==
    LET first == IF ans.k = "str"
                 THEN FirstNormEqual(choices, norm_text(ans.s)) ELSE <<>>
    IN  Take(TrimFill(first, choices), 4)

OrElse(found, default) == IF found = <<>> THEN default ELSE found[1]

fuzzy_answer_keeps(choices, ans) == ans

\* the answer after the fuzzy mapping: the first choice equal (in normal
\* form) to the closest match, if there is one
fuzzy_answer(choices, ans) ==
    LET IsStr(v) == v.k = "str"
        NormStr(v) == norm_text(v.s)
    IN  The({IF match = <<>> THEN ans
             ELSE OrElse(FirstNormEqual(choices, match[1]), ans) :
             match \in {get_close_matches(norm_text(ans.s),
                            MapSeq(NormStr, Filter(choices, IsStr)))}})

\* _repair_mcq(item): the item it returns, or the exception _answers_match
\* raised, the item then being left with its choices trimmed.
repair_mcq(item) ==
    IF item.type # "mcq" \/ ~item.choices_is_list THEN Returns(item)
    ELSE LET a == IF Len(item.choices) > 4
                  THEN [item EXCEPT !.choices = trim_choices(@, item.answer)]
                  ELSE item
         IN  IF a.answer.k # "str" THEN Returns(a)
             ELSE The({IF m.exc # "" THEN Raises(m.exc, a)
                       ELSE IF ~m.val
                       THEN Returns([a EXCEPT !.answer = fuzzy_answer(a.choices, @)])
                       ELSE Returns(a) :
                       m \in {answers_match(a.answer.s, a.choices)}})

RECURSIVE repair_items(_)
\* _repair_items(items): the first exception of _repair_mcq ends the loop
repair_items(items) ==
    IF items = <<>> THEN Returns(<<>>)
    ELSE The({IF h.exc # "" THEN Raises(h.exc, <<>>)
              ELSE The({IF t.exc # "" THEN t ELSE Returns(<<h.val>> \o t.val) :
                        t \in {repair_items(Tail(items))}}) :
              h \in {repair_mcq(Head(items))}})

is_valid_mcq(item) ==
    /\ item.type = "mcq"
    /\ item.question.k = "str"
    /\ item.choices_is_list
    /\ Len(item.choices) = 4
    /\ item.answer.k = "str"
    /\ \A i \in 1..Len(item.choices) :
          item.choices[i].k = "str" /\ Len(norm_text(item.choices[i].s)) >= 3
    /\ answers_match(item.answer.s, item.choices).val

HasTextAnswer(item) ==
    /\ item.question.k = "str"
    /\ item.answer.k = "str"
    /\ Len(norm_text(item.answer.s)) > 0

is_valid_short(item) == item.type = "short_answer" /\ HasTextAnswer(item)

is_valid_tf(item) ==
    /\ item.type = "true_false"
    /\ item.question.k = "str"
    /\ item.answer.k = "bool"

is_valid_identification(item) == item.type = "identification" /\ HasTextAnswer(item)

is_valid_essay(item) == item.type = "essay" /\ HasTextAnswer(item)

IsValid(item) ==
    \/ is_valid_mcq(item)
    \/ is_valid_short(item)
    \/ is_valid_tf(item)
    \/ is_valid_identification(item)
    \/ is_valid_essay(item)

partition_keeps_invalid(items) ==
    [t \in Types |-> LET Good(it) == it.type = t IN Filter(items, Good)]

\* the bucket loop of _filter_and_partition
partition(items) ==
    [t \in Types |-> LET Good(it) == it.type = t /\ IsValid(it)
                     IN  Filter(items, Good)]

\* _filter_and_partition: the five buckets, as a function of the type, or
\* the exception that _repair_items raised (the try of the bucket loop does
\* not cover it)
filter_and_partition(items) ==
    The({IF repaired.exc # "" THEN Raises(repaired.exc, [t \in Types |-> <<>>])
         ELSE Returns(partition(repaired.val)) :
         repaired \in {repair_items(normalize_items(items))}})

RECURSIVE ConcatTypes(_, _)
ConcatTypes(f, order) ==
    IF order = <<>> THEN <<>> ELSE f[Head(order)] \o ConcatTypes(f, Tail(order))

merge_reversed_order(buckets, need) ==
    ConcatTypes([t \in Types |-> Take(buckets[t], need[t])],
                <<"essay", "identification", "true_false", "short_answer", "mcq">>)

merge_trim_to_counts(buckets, need) ==
    ConcatTypes([t \in Types |-> Take(buckets[t], need[t])], TypeOrder)

counts_satisfied(buckets, need) == \A t \in Types : Len(buckets[t]) >= need[t]

RECURSIVE SumTypes(_, _)
SumTypes(f, order) ==
    IF order = <<>> THEN 0 ELSE f[Head(order)] + SumTypes(f, Tail(order))
Total(f) == SumTypes(f, TypeOrder)

TopupWeight ==
    [t \in Types |-> CASE t = "mcq" -> 220 [] t = "short_answer" -> 120
                       [] t = "true_false" -> 40 [] t = "identification" -> 100
                       [] t = "essay" -> 180]

estimate_topup_tokens(missing) ==
    Max(300, Total([t \in Types |-> missing[t] * TopupWeight[t]]))

missing_all_requested(have, need) == need

\* the missing_* of _top_up_generation
missing_counts(have, need) == [t \in Types |-> Max(0, need[t] - have[t])]

small_cap(missing) == Min(1200, estimate_topup_tokens(missing))

(***************************************************************************)
(* call_groq: the dispatch loop.                                           *)
(*                                                                         *)
(* A caller is a request thread.  Its steps are the stretches of call_groq *)
(* between the points where another thread can run or the clock can move:  *)
(* the candidate list, one loop head (cooldown test and can_afford), the   *)
(* reserve with the POST it precedes, the handling of a response, a        *)
(* backoff sleep with the retry POST that follows it.                      *)
(***************************************************************************)
Callers == {1, 2}
MaxDispatches == 2

\* GROQ_MAX_TOKENS (default) and the cap grade_short_answer passes.
GROQ_MAX_TOKENS == 6000
GradeCap == 3
\* len(prompt): a quiz prompt built on a full 12000-character text, and a
\* grading prompt.
QuizPromptLen == 13500
GradePromptLen == 600
QuizCall == [len |-> QuizPromptLen, cap |-> GROQ_MAX_TOKENS]
GradeCall == [len |-> GradePromptLen, cap |-> GradeCap]

\* HTTP statuses: success, a client error, the rate/quota statuses, a
\* transient one.
Statuses == {200, 400, 403, 429, 500}
\* Which keyword families the error body (message and code, lower-cased)
\* contains: "short" = tpm/rpm/rate, "long" = daily/tpd/rpd/quota/
\* insufficient/exceed/exceeded/limit.  _QUOTA_HINTS is their union.
Hints == SUBSET {"short", "long"}
\* usage.total_tokens of a 200 body: 0 stands for absent or not a positive int.
Usages == {0, 100, 7000}
\* The body of a 200: one with choices[0].message.content ("ok"), JSON
\* without it ("no_choices"), or text r.json() rejects ("not_json").
Bodies == {"ok", "no_choices", "not_json"}
NumBackoffs == 2
in_tokens(prompt_len) == Max(1, prompt_len \div 4)

estimate_tokens_for_request(prompt_len, out_tokens_cap) ==
    in_tokens(prompt_len) + Max(1, out_tokens_cap \div 2)

model_list_preference == [i \in 1..NumModels |-> i]

\* choose_model: the first model not on cooldown for which can_afford holds,
\* 0 for None.  can_afford does not depend on the model.
choose_model(cd, l, t, est) ==
    LET ok == {m \in Models : ~is_model_on_cooldown(cd, t, m)
                              /\ can_afford(l, t, est) = ""}
    IN  IF ok = {} THEN 0 ELSE CHOOSE m \in ok : \A k \in ok : m <= k

\* The limiter after choose_model: can_afford rolls the windows each time it
\* is reached, that is, whenever some model is not on cooldown.
LimAfterChoose(cd, l, t) ==
    IF \E m \in Models : ~is_model_on_cooldown(cd, t, m)
    THEN maybe_roll_windows(l, t) ELSE l

RECURSIVE Without(_, _)
Without(seq, x) ==
    IF seq = <<>> THEN <<>>
    ELSE IF Head(seq) = x THEN Without(Tail(seq), x)
    ELSE <<Head(seq)>> \o Without(Tail(seq), x)

models_to_try_keeps_first(first) ==
    IF first # 0
    THEN <<first>> \o model_list_preference
    ELSE model_list_preference

\* models_to_try: the chosen model, then the preference list without it.
models_to_try(first) ==
    IF first # 0
    THEN <<first>> \o Without(model_list_preference, first)
    ELSE model_list_preference

Word(a, b, c) == StrV(<<a, b, c>>)
Question == StrV(<<"q", " ", " ", "a">>)
FourChoices == <<Word("a", "a", "a"), Word("b", "b", "b"),
                 Word("c", "c", "c"), Word("d", "d", "d")>>
\* Items a model may return: a sound mcq whose answer needs normalizing, an
\* mcq whose answer is a near miss of a choice, an mcq with three choices, a
\* short answer, a true/false with its answer as text, an identification, an
\* essay, an mcq with a choice that is not a str.
ItemMcq == MkItem("mcq", Question, TRUE, FourChoices, StrV(<<" ", "c", "c", "c">>))
ItemMcqNear == MkItem("mcq", Question, TRUE, FourChoices, Word("b", "b", "x"))
ItemMcqThree == MkItem("mcq", Question, TRUE, SubSeq(FourChoices, 1, 3), Word("a", "a", "a"))
ItemShort == MkItem("short_answer", Question, FALSE, <<>>, Word("y", "e", "s"))
ItemTf == MkItem("true_false", Question, FALSE, <<>>, StrV(<<"T", "r", "u", "e">>))
ItemIdf == MkItem("identification", Question, FALSE, <<>>, Word("a", "b", "c"))
ItemEssay == MkItem("essay", Question, FALSE, <<>>, Word("a", " ", "b"))
\* An mcq with a choice that is JSON true, and an answer that is no choice.
ItemMcqTrueChoice ==
    MkItem("mcq", Question, TRUE,
           <<Word("a", "a", "a"), BoolV(TRUE), Word("b", "b", "b"),
             Word("c", "c", "c")>>, Word("x", "y", "z"))
QuizPool ==
    {ItemMcq, ItemMcqNear, ItemMcqThree, ItemShort, ItemTf, ItemIdf, ItemEssay,
     ItemMcqTrueChoice}

MaxItems == 2
MaxNeed == 2
MaxTotal == 2
SeqsUpTo(S, n) == UNION {[1..k -> S] : k \in 0..n}
\* What a 200 body carries in choices[0].message.content, as far as
\* extract_json_array sees it: text that parses into the JSON array `arr`, or
\* text it rejects ("bad").  call_groq hands the text on untouched, so it is
\* drawn where generate_quiz reads it.
QuizContents ==
    {[parse |-> "bad", arr |-> <<>>]}
        \cup {[parse |-> "ok", arr |-> a] : a \in SeqsUpTo(QuizPool, MaxItems)}

\* The replies a scenario lets the provider give: any, or those of a provider
\* that answers, is rate limited or fails transiently, and reports no usage;
\* `items` names the kinds of item the content of a 200 may hold.
AnyReply ==
    [statuses |-> Statuses, hints |-> Hints, code_hits |-> BOOLEAN,
     usages |-> Usages, bodies |-> Bodies, items |-> "all"]
QuizReplies ==
    [statuses |-> {200, 429, 500}, hints |-> {{}, {"short"}},
     code_hits |-> {FALSE}, usages |-> {0}, bodies |-> {"ok"}, items |-> "all"]
\* The same provider, writing fewer kinds of item.
LoopPool == {ItemMcq, ItemShort, ItemMcqTrueChoice}
LoopContents ==
    {[parse |-> "bad", arr |-> <<>>]}
        \cup {[parse |-> "ok", arr |-> a] : a \in SeqsUpTo(LoopPool, MaxItems)}
LoopReplies == [QuizReplies EXCEPT !.items = "few"]
\* The contents the provider of request thread c may write.
Contents(c) ==
    IF quota[c].replies.items = "few" THEN LoopContents ELSE QuizContents
\* A caller that starts no call_groq by itself.
NoDispatches == [n |-> 0, calls |-> {}, replies |-> AnyReply]

NoText == [input |-> <<>>, step |-> 0, once |-> <<>>, twice |-> <<>>]

\* mcq_count, sa_count, tf_count, idf_count, ess_count of a request
Needs == {need \in [Types -> 0..MaxNeed] : Total(need) <= MaxTotal}
NoNeed == [t \in Types |-> 0]
NoBuckets == [t \in Types |-> <<>>]
Lens(buckets) == [t \in Types |-> Len(buckets[t])]

\* The generate_quiz request in progress: where it is (stage), its counts,
\* the buckets kept so far, the counts after the first pass (have), how many
\* top-ups it has started and with which counts, whether extract_json_array
\* rejected an output it was given (unparsed), and its response.
NoQuiz ==
    [stage |-> "none", need |-> NoNeed, buckets |-> NoBuckets, have |-> NoNeed,
     topups |-> 0, topup_req |-> NoNeed, unparsed |-> FALSE, outcome |-> "",
     returned |-> <<>>]

\* The locals of a call_groq invocation, and what it has done: for its
\* latest reservation, the limiter as reserve found it once the windows were
\* rolled (reserved_on), how many adjust_after_response calls followed
\* (adjusts) and the actual usage the latest of them passed (used).
IdleJob ==
    [prompt_len |-> 0, cap |-> 0, todo |-> <<>>, idx |-> 0, attempt |-> 0,
     last_error |-> 0, result |-> "", posts |-> 0, nposts |-> 0,
     none_eligible |-> FALSE, ndisp |-> 0,
     reserved_on |-> NewLimiter(0), adjusts |-> 0, used |-> 0, pending |-> 0]

\* limiter.adjust_after_response(estimate, actual) was called for the
\* reservation of j.
Adjusted(j, actual) == [j EXCEPT !.adjusts = @ + 1, !.used = actual]

Estimate(c) == estimate_tokens_for_request(job[c].prompt_len, job[c].cap)
Model(c) == job[c].todo[job[c].idx]

\* The response a call_groq invocation holds in r or r2: its status, the
\* keyword families of its error text, whether error.code alone holds a
\* keyword, the body of a 200, and whether it answered a retry.
NoResponse ==
    [status |-> 0, retry |-> FALSE, hint |-> {}, code_hit |-> FALSE, body |-> ""]
NoResp == [c \in Callers |-> NoResponse]

\* The most awaits a socket.io handler passes: student_join and
\* host_open_quiz await save_session, enter_room and emit.
MaxAwaits == 3

\* Socket.io events.  queued: the events whose handler the event loop has yet
\* to start, in order of arrival, each with the number of awaits its handler
\* will come to.  suspended[k]: how many handlers have begun and are
\* suspended at an await with k more awaits ahead of them.
NoEvents == [queued |-> <<>>, suspended |-> [k \in 0..(MaxAwaits - 1) |-> 0]]

\* No text being extracted, no item being repaired, no grading request, no
\* socket event, no array being partitioned.
NoRaw == [array |-> <<>>, text |-> <<>>, step |-> 0, ok |-> FALSE, result |-> <<>>]
NoFix == [item |-> NonDict, step |-> 0, out |-> NonDict, exc |-> ""]
NoGrade ==
    [stage |-> "none", type |-> "", student |-> <<>>, ref |-> <<>>,
     reply |-> <<>>, is_correct |-> FALSE, by |-> ""]
NoPart == [items |-> <<>>, step |-> 0, buckets |-> NoBuckets, exc |-> ""]
NoMore ==
    /\ raw = NoRaw
    /\ fix = NoFix
    /\ grade = NoGrade
    /\ events = NoEvents
    /\ part = NoPart

NoCallers ==
    /\ quota = [c \in Callers |-> NoDispatches]
    /\ pc = [c \in Callers |-> "idle"]
    /\ job = [c \in Callers |-> IdleJob]
    /\ quiz = NoQuiz
    /\ txt = NoText
    /\ resp = NoResp
    /\ NoMore

\* The limiter driven call by call, no request running.
LimiterNext == Tick \/ CallCanAfford \/ CallReserve \/ CallAdjust

LimiterOnlyInit == LimiterInit /\ NoCallers

SpecLimiter == LimiterOnlyInit /\ [][LimiterNext]_vars

CooldownNext == Tick \/ CallSetCooldown

SpecCooldown == LimiterOnlyInit /\ [][CooldownNext]_vars

\* `continue` / falling off the end of the body: the next candidate, or, after
\* the last one, the RuntimeError built from last_error.
NextCandidate(j) ==
    IF j.idx < Len(j.todo)
    THEN [j EXCEPT !.idx = @ + 1, !.attempt = 0, !.posts = 0]
    ELSE [j EXCEPT !.idx = @ + 1, !.attempt = 0, !.posts = 0,
                   !.result = "dispatch_failed"]

PcAfter(j) == IF j.result = "" THEN "loop" ELSE "done"

\* call_groq(prompt, max_tokens_override) from entry up to the for loop.
CallGroq(c, len, cap) ==
    LET est == estimate_tokens_for_request(len, cap)
        first == choose_model(cooldown, lim, now, est)
        todo == models_to_try(first)
    IN  /\ lim' = LimAfterChoose(cooldown, lim, now)
        /\ job' = [job EXCEPT ![c] =
              [IdleJob EXCEPT !.prompt_len = len, !.cap = cap,
                              !.todo = todo, !.idx = 1,
                              !.none_eligible = (first = 0),
                              !.ndisp = job[c].ndisp + 1,
                              !.result = IF todo = <<>>
                                         THEN "budget_exhausted" ELSE ""]]
        /\ pc' = [pc EXCEPT ![c] = IF todo = <<>> THEN "done" ELSE "loop"]
        /\ resp' = [resp EXCEPT ![c] = NoResponse]
        /\ UNCHANGED <<now, cooldown, last, prev, cdlog, ncalls, quota, txt, morevars>>

\* A request thread calls call_groq.
Start(c) ==
    /\ pc[c] = "idle"
    /\ job[c].ndisp < quota[c].n
    /\ \E call \in quota[c].calls : CallGroq(c, call.len, call.cap)
    /\ UNCHANGED <<quiz, grade>>

\* Loop head: skip a model on cooldown or unaffordable, else go on to reserve.
LoopHead(c) ==
    /\ pc[c] = "loop"
    /\ IF is_model_on_cooldown(cooldown, now, Model(c))
       THEN /\ job' = [job EXCEPT ![c] = NextCandidate(@)]
            /\ pc' = [pc EXCEPT ![c] = PcAfter(job'[c])]
            /\ lim' = lim
       ELSE /\ lim' = maybe_roll_windows(lim, now)
            /\ IF can_afford(lim, now, Estimate(c)) = ""
               THEN /\ pc' = [pc EXCEPT ![c] = "reserve"]
                    /\ job' = job
               ELSE /\ job' = [job EXCEPT ![c] = NextCandidate(@)]
                    /\ pc' = [pc EXCEPT ![c] = PcAfter(job'[c])]
    /\ UNCHANGED <<now, cooldown, last, prev, cdlog, ncalls, quota, txt, quiz,
                 resp, grade, morevars>>

\* limiter.reserve(estimate), then _post_to_groq is issued.
Reserve(c) ==
    /\ pc[c] = "reserve"
    /\ lim' = reserve(lim, now, Estimate(c))
    /\ job' = [job EXCEPT ![c].posts = @ + 1, ![c].nposts = @ + 1,
                          ![c].reserved_on = maybe_roll_windows(lim, now),
                          ![c].adjusts = 0, ![c].used = 0]
    /\ pc' = [pc EXCEPT ![c] = "await"]
    /\ UNCHANGED <<now, cooldown, last, prev, cdlog, ncalls, quota, txt, quiz,
                 resp, grade, morevars>>

Used(c, usage) == IF usage > 0 THEN usage ELSE Estimate(c)

\* The responses the provider may give to a first POST.  A 200 carries a body;
\* any other status carries the keyword families of its error text and
\* whether a keyword stands in error.code alone (code_hit), which is the case
\* when message or code is not a str, so that msg_text is empty.
Responses(c) ==
    LET q == quota[c].replies
    IN  {[status |-> 200, retry |-> FALSE, hint |-> {}, code_hit |-> FALSE,
          body |-> b] : b \in IF 200 \in q.statuses THEN q.bodies ELSE {}}
        \cup {r \in [status : q.statuses \ {200}, retry : {FALSE},
                     hint : q.hints, code_hit : q.code_hits, body : {""}] :
                r.code_hit => r.hint = {}}

\* The responses to a retry POST: the error body of a retry is only logged.
RetryResponses(c) ==
    LET q == quota[c].replies
    IN  {[status |-> 200, retry |-> TRUE, hint |-> {}, code_hit |-> FALSE,
          body |-> b] : b \in IF 200 \in q.statuses THEN q.bodies ELSE {}}
        \cup {[status |-> s, retry |-> TRUE, hint |-> {}, code_hit |-> FALSE,
               body |-> ""] : s \in q.statuses \ {200}}

\* What call_groq does with a response that is not a 200, once the
\* reservation is released: the quota branch (status 429 or 403, a keyword in
\* msg_text, or a keyword in code_lower), the transient branch, or neither.
Branch(r) ==
    IF r.status \in {429, 403} \/ r.hint # {} \/ r.code_hit THEN "quota"
    ELSE IF r.status \in {500, 502, 503} THEN "transient"
    ELSE "other"

\* The seconds of the cooldown the quota branch sets, 0 for none: only
\* msg_text is looked at, the tpm/rpm/rate keywords first.
CooldownSeconds(r) ==
    IF Branch(r) # "quota" THEN 0
    ELSE IF "short" \in r.hint THEN CooldownShort
    ELSE IF "long" \in r.hint THEN CooldownLong
    ELSE 0

\* The locals after the branch: the retry loop is entered, or the loop goes on
\* to the next candidate.
AfterBranch(j, r) ==
    IF Branch(r) = "transient" THEN [j EXCEPT !.attempt = 1]
    ELSE NextCandidate(j)

PcAfterBranch(j, r) == IF Branch(r) = "transient" THEN "backoff" ELSE PcAfter(j)

\* What a 200 ends in: the content, or the exception of r.json() or of
\* j["choices"][0]["message"]["content"].
ResultOf(r) == IF r.body = "ok" THEN "content" ELSE "body_error"

\* The response to the first POST for a candidate, handled with no other
\* thread running in between.
Respond(c) ==
    /\ pc[c] = "await"
    /\ \E r \in Responses(c), usage \in quota[c].replies.usages :
        /\ resp' = [resp EXCEPT ![c] = r]
        /\ IF r.status = 200
           THEN /\ IF r.body = "not_json"
                   THEN /\ lim' = lim
                        /\ job' = [job EXCEPT ![c].result = ResultOf(r)]
                   ELSE /\ lim' = adjust_after_response(lim, now, Estimate(c),
                                                        Used(c, usage))
                        /\ job' = [job EXCEPT ![c] =
                                     Adjusted([@ EXCEPT !.result = ResultOf(r)],
                                              Used(c, usage))]
                /\ pc' = [pc EXCEPT ![c] = "done"]
                /\ cooldown' = cooldown
           ELSE /\ lim' = adjust_after_response(lim, now, Estimate(c),
                                                in_tokens(job[c].prompt_len))
                /\ cooldown' =
                     IF CooldownSeconds(r) > 0
                     THEN set_cooldown(cooldown, now, Model(c), CooldownSeconds(r))
                     ELSE cooldown
                /\ job' = [job EXCEPT ![c] =
                             AfterBranch(Adjusted([@ EXCEPT !.last_error = r.status],
                                                  in_tokens(@.prompt_len)), r)]
                /\ pc' = [pc EXCEPT ![c] = PcAfterBranch(job'[c], r)]
    /\ UNCHANGED <<now, last, prev, cdlog, ncalls, quota, txt, quiz,
                 grade, morevars>>

\* time.sleep(b), then the retry POST to the same model.
RetryPost(c) ==
    /\ pc[c] = "backoff"
    /\ job' = [job EXCEPT ![c].posts = @ + 1, ![c].nposts = @ + 1]
    /\ pc' = [pc EXCEPT ![c] = "await_retry"]
    /\ UNCHANGED <<now, lim, cooldown, last, prev, cdlog, ncalls, quota, txt, quiz,
                 resp, grade, morevars>>

\* The locals after a retry that did not answer 200: the next backoff, or the
\* model is given up.
AfterFailedRetry(j) ==
    IF j.attempt < NumBackoffs THEN [j EXCEPT !.attempt = @ + 1]
    ELSE NextCandidate(j)

PcAfterFailedRetry(j0, j) == IF j0.attempt < NumBackoffs THEN "backoff" ELSE PcAfter(j)

\* A retry loop that gives the model up at the first failed retry.
RespondRetry_gives_up(c) ==
    /\ pc[c] = "await_retry"
    /\ \E r \in RetryResponses(c), usage \in quota[c].replies.usages :
        /\ resp' = [resp EXCEPT ![c] = r]
        /\ IF r.status = 200
           THEN /\ IF r.body = "not_json"
                   THEN /\ lim' = lim
                        /\ job' = [job EXCEPT ![c].result = ResultOf(r)]
                   ELSE /\ lim' = adjust_after_response(lim, now, Estimate(c),
                                                        Used(c, usage))
                        /\ job' = [job EXCEPT ![c] =
                                     Adjusted([@ EXCEPT !.result = ResultOf(r)],
                                              Used(c, usage))]
                /\ pc' = [pc EXCEPT ![c] = "done"]
           ELSE /\ lim' = lim
                /\ job' = [job EXCEPT ![c] = NextCandidate(@)]
                /\ pc' = [pc EXCEPT ![c] = PcAfter(job'[c])]
    /\ UNCHANGED <<now, cooldown, last, prev, cdlog, ncalls, quota, txt, quiz,
                 grade, morevars>>

\* The response to a retry POST, handled with no other thread running in
\* between.
RespondRetry(c) ==
    /\ pc[c] = "await_retry"
    /\ \E r \in RetryResponses(c), usage \in quota[c].replies.usages :
        /\ resp' = [resp EXCEPT ![c] = r]
        /\ IF r.status = 200
           THEN /\ IF r.body = "not_json"
                   THEN /\ lim' = lim
                        /\ job' = [job EXCEPT ![c].result = ResultOf(r)]
                   ELSE /\ lim' = adjust_after_response(lim, now, Estimate(c),
                                                        Used(c, usage))
                        /\ job' = [job EXCEPT ![c] =
                                     Adjusted([@ EXCEPT !.result = ResultOf(r)],
                                              Used(c, usage))]
                /\ pc' = [pc EXCEPT ![c] = "done"]
           ELSE /\ lim' = lim
                /\ job' = [job EXCEPT ![c] = AfterFailedRetry(@)]
                /\ pc' = [pc EXCEPT ![c] = PcAfterFailedRetry(job[c], job'[c])]
    /\ UNCHANGED <<now, cooldown, last, prev, cdlog, ncalls, quota, txt, quiz,
                 grade, morevars>>

\* Request threads share the limiter without a lock.  A step of a thread is
\* one access to the limiter's state: another thread can run between any two
\* of them, call_groq and the limiter making calls (logging, max, dict.get,
\* time.time) in between.  In
\*     self.tpm_used = max(0, self.tpm_used + delta)
\*     self.tpd_used = max(0, self.tpd_used + delta)
\*     self.model_cooldown_until[model] =
\*         max(self.model_cooldown_until.get(model, 0), time.time() + seconds)
\* the value is read and max() is called before the store: job[c].pending is
\* the value thread c has computed and not yet stored.  The four `+=` of
\* reserve make no call between them and are one step, as are the reads of
\* can_afford.
\*
\* A thread receives the response to its POST; unless r.json() raises, it
\* enters adjust_after_response: the windows are rolled, tpm_used is read.
ThreadReceives(c, r, actual) ==
    /\ resp' = [resp EXCEPT ![c] = r]
    /\ IF r.status = 200 /\ r.body = "not_json"
       THEN /\ lim' = lim
            /\ job' = [job EXCEPT ![c].result = ResultOf(r)]
            /\ pc' = [pc EXCEPT ![c] = "done"]
       ELSE /\ lim' = maybe_roll_windows(lim, now)
            /\ job' = [job EXCEPT ![c] =
                  [Adjusted(@, actual) EXCEPT
                      !.last_error = IF r.status = 200 THEN @ ELSE r.status,
                      !.pending = Max(0, maybe_roll_windows(lim, now).tpm_used
                                         + actual - Estimate(c))]]
            /\ pc' = [pc EXCEPT ![c] = "adjust_tpm"]
    /\ UNCHANGED <<now, cooldown, last, prev, cdlog, ncalls, quota, txt, quiz,
                 grade, morevars>>

\* The response to the first POST, on a thread among others.
ThreadRespond(c) ==
    /\ pc[c] = "await"
    /\ \E r \in Responses(c), usage \in quota[c].replies.usages :
        ThreadReceives(c, r, IF r.status = 200 THEN Used(c, usage)
                             ELSE in_tokens(job[c].prompt_len))

\* The response to a retry POST, on a thread among others: a retry that does
\* not answer 200 touches no shared state.
ThreadRespondRetry(c) ==
    /\ pc[c] = "await_retry"
    /\ \E r \in RetryResponses(c), usage \in quota[c].replies.usages :
        IF r.status = 200
        THEN ThreadReceives(c, r, Used(c, usage))
        ELSE /\ resp' = [resp EXCEPT ![c] = r]
             /\ job' = [job EXCEPT ![c] = AfterFailedRetry(@)]
             /\ pc' = [pc EXCEPT ![c] = PcAfterFailedRetry(job[c], job'[c])]
             /\ UNCHANGED <<now, lim, cooldown, last, prev, cdlog, ncalls, quota,
                          txt, quiz, grade, morevars>>

\* The store of tpm_used.
StoreTpm(c) ==
    /\ pc[c] = "adjust_tpm"
    /\ lim' = [lim EXCEPT !.tpm_used = job[c].pending]
    /\ job' = [job EXCEPT ![c].pending = 0]
    /\ pc' = [pc EXCEPT ![c] = "read_tpd"]
    /\ UNCHANGED <<now, cooldown, last, prev, cdlog, ncalls, quota, txt, quiz,
                 resp, grade, morevars>>

\* tpd_used is read.
ReadTpd(c) ==
    /\ pc[c] = "read_tpd"
    /\ job' = [job EXCEPT ![c].pending =
                 Max(0, lim.tpd_used + job[c].used - Estimate(c))]
    /\ pc' = [pc EXCEPT ![c] = "adjust_tpd"]
    /\ UNCHANGED <<now, lim, cooldown, last, prev, cdlog, ncalls, quota, txt, quiz,
                 resp, grade, morevars>>

\* The store of tpd_used, and what call_groq does next with its response on
\* its own: it returns or raises after a 200, classifies any other response
\* and enters set_cooldown, the retry loop or the next iteration.
StoreTpd(c) ==
    LET r == resp[c]
    IN  /\ pc[c] = "adjust_tpd"
        /\ lim' = [lim EXCEPT !.tpd_used = job[c].pending]
        /\ IF r.status = 200
           THEN /\ job' = [job EXCEPT ![c].result = ResultOf(r), ![c].pending = 0]
                /\ pc' = [pc EXCEPT ![c] = "done"]
           ELSE IF CooldownSeconds(r) > 0
           THEN /\ job' = [job EXCEPT ![c].pending = 0]
                /\ pc' = [pc EXCEPT ![c] = "read_cooldown"]
           ELSE /\ job' = [job EXCEPT ![c] = AfterBranch([@ EXCEPT !.pending = 0], r)]
                /\ pc' = [pc EXCEPT ![c] = PcAfterBranch(job'[c], r)]
        /\ UNCHANGED <<now, cooldown, last, prev, cdlog, ncalls, quota, txt, quiz,
                     resp, grade, morevars>>

\* set_cooldown reads the model's entry and the clock.
ReadCooldown(c) ==
    /\ pc[c] = "read_cooldown"
    /\ job' = [job EXCEPT ![c].pending =
                 Max(cooldown[Model(c)], now + CooldownSeconds(resp[c]))]
    /\ pc' = [pc EXCEPT ![c] = "set_cooldown"]
    /\ UNCHANGED <<now, lim, cooldown, last, prev, cdlog, ncalls, quota, txt, quiz,
                 resp, grade, morevars>>

\* The store of the model's cooldown, then the next candidate.
StoreCooldown(c) ==
    /\ pc[c] = "set_cooldown"
    /\ cooldown' = [cooldown EXCEPT ![Model(c)] = job[c].pending]
    /\ job' = [job EXCEPT ![c] = NextCandidate([@ EXCEPT !.pending = 0])]
    /\ pc' = [pc EXCEPT ![c] = PcAfter(job'[c])]
    /\ UNCHANGED <<now, lim, last, prev, cdlog, ncalls, quota, txt, quiz,
                 resp, grade, morevars>>

\* A request thread enters call_groq and choose_model, at the first model of
\* the preference list (todo holds the list while choose_model runs).
ThreadStart(c) ==
    /\ pc[c] = "idle"
    /\ job[c].ndisp < quota[c].n
    /\ \E call \in quota[c].calls :
          job' = [job EXCEPT ![c] =
                    [IdleJob EXCEPT !.prompt_len = call.len, !.cap = call.cap,
                                    !.todo = model_list_preference, !.idx = 1,
                                    !.ndisp = job[c].ndisp + 1]]
    /\ pc' = [pc EXCEPT ![c] = "choose"]
    /\ resp' = [resp EXCEPT ![c] = NoResponse]
    /\ UNCHANGED <<now, lim, cooldown, last, prev, cdlog, ncalls, quota, txt, quiz,
                 grade, morevars>>

\* choose_model has returned `first` (0 for None): models_to_try is built.
Chosen(j, first) ==
    [j EXCEPT !.todo = models_to_try(first), !.idx = 1,
              !.none_eligible = (first = 0),
              !.result = IF models_to_try(first) = <<>>
                         THEN "budget_exhausted" ELSE ""]

\* choose_model goes on to its next model, or returns None after the last.
ChooseNext(j) ==
    IF j.idx < Len(model_list_preference) THEN [j EXCEPT !.idx = @ + 1]
    ELSE Chosen(j, 0)

\* choose_model tests the cooldown of its model.
ThreadChoose(c) ==
    /\ pc[c] = "choose"
    /\ IF is_model_on_cooldown(cooldown, now, Model(c))
       THEN /\ job' = [job EXCEPT ![c] = ChooseNext(@)]
            /\ pc' = [pc EXCEPT ![c] =
                        IF job[c].idx < Len(model_list_preference)
                        THEN "choose" ELSE PcAfter(job'[c])]
       ELSE /\ job' = job
            /\ pc' = [pc EXCEPT ![c] = "choose_afford"]
    /\ UNCHANGED <<now, lim, cooldown, last, prev, cdlog, ncalls, quota, txt, quiz,
                 resp, grade, morevars>>

\* choose_model calls can_afford for its model.
ThreadChooseAfford(c) ==
    /\ pc[c] = "choose_afford"
    /\ lim' = maybe_roll_windows(lim, now)
    /\ IF can_afford(lim, now, Estimate(c)) = ""
       THEN /\ job' = [job EXCEPT ![c] = Chosen(@, Model(c))]
            /\ pc' = [pc EXCEPT ![c] = PcAfter(job'[c])]
       ELSE /\ job' = [job EXCEPT ![c] = ChooseNext(@)]
            /\ pc' = [pc EXCEPT ![c] =
                        IF job[c].idx < Len(model_list_preference)
                        THEN "choose" ELSE PcAfter(job'[c])]
    /\ UNCHANGED <<now, cooldown, last, prev, cdlog, ncalls, quota, txt, quiz,
                 resp, grade, morevars>>

\* Loop head on a thread: the cooldown test of the candidate.
ThreadLoopHead(c) ==
    /\ pc[c] = "loop"
    /\ IF is_model_on_cooldown(cooldown, now, Model(c))
       THEN /\ job' = [job EXCEPT ![c] = NextCandidate(@)]
            /\ pc' = [pc EXCEPT ![c] = PcAfter(job'[c])]
       ELSE /\ job' = job
            /\ pc' = [pc EXCEPT ![c] = "afford"]
    /\ UNCHANGED <<now, lim, cooldown, last, prev, cdlog, ncalls, quota, txt, quiz,
                 resp, grade, morevars>>

\* Then can_afford for the candidate.
ThreadAfford(c) ==
    /\ pc[c] = "afford"
    /\ lim' = maybe_roll_windows(lim, now)
    /\ IF can_afford(lim, now, Estimate(c)) = ""
       THEN /\ job' = job
            /\ pc' = [pc EXCEPT ![c] = "reserve"]
       ELSE /\ job' = [job EXCEPT ![c] = NextCandidate(@)]
            /\ pc' = [pc EXCEPT ![c] = PcAfter(job'[c])]
    /\ UNCHANGED <<now, cooldown, last, prev, cdlog, ncalls, quota, txt, quiz,
                 resp, grade, morevars>>

\* requests.post raises (timeout, connection error): the exception leaves
\* call_groq as it is, before the response is looked at.
PostRaises(c) ==
    /\ pc[c] \in {"await", "await_retry"}
    /\ job' = [job EXCEPT ![c].result = "exception"]
    /\ pc' = [pc EXCEPT ![c] = "done"]
    /\ UNCHANGED <<now, lim, cooldown, last, prev, cdlog, ncalls, quota, txt, quiz,
                 resp, grade, morevars>>

\* call_groq returns or raises: its locals are gone, the caller has the
\* result.
Returned(j) == [IdleJob EXCEPT !.result = j.result, !.ndisp = j.ndisp]

Return(c) ==
    /\ pc[c] = "done"
    /\ pc' = [pc EXCEPT ![c] = "idle"]
    /\ job' = [job EXCEPT ![c] = Returned(@)]
    /\ resp' = [resp EXCEPT ![c] = NoResponse]
    /\ UNCHANGED <<now, lim, cooldown, last, prev, cdlog, ncalls, quota, txt, quiz,
                 grade, morevars>>

CallGroqStep(c) ==
    \/ Start(c)
    \/ LoopHead(c)
    \/ Reserve(c)
    \/ Respond(c)
    \/ RetryPost(c)
    \/ RespondRetry(c)
    \/ PostRaises(c)
    \/ Return(c)

DispatchInit(q) ==
    /\ LimiterInit
    /\ quota = q
    /\ pc = [c \in Callers |-> "idle"]
    /\ job = [c \in Callers |-> IdleJob]
    /\ quiz = NoQuiz
    /\ txt = NoText
    /\ resp = NoResp
    /\ NoMore

\* One request thread at a time.
DispatchNext == Tick \/ \E c \in Callers : CallGroqStep(c)
SequentialInit ==
    DispatchInit([c \in Callers |-> IF c = 1
                                   THEN [n |-> MaxDispatches,
                                         calls |-> {QuizCall, GradeCall},
                                         replies |-> AnyReply]
                                   ELSE NoDispatches])
SpecDispatch == SequentialInit /\ [][DispatchNext]_vars

\* Two grading requests sharing the limiter (grade_short_answer is a sync
\* route: each request runs on its own worker thread), their steps interleaved
\* in every order.  The clock stands still: the interleavings of interest need
\* no time to pass.
ThreadStep(c) ==
    \/ ThreadStart(c)
    \/ ThreadChoose(c)
    \/ ThreadChooseAfford(c)
    \/ ThreadLoopHead(c)
    \/ ThreadAfford(c)
    \/ Reserve(c)
    \/ ThreadRespond(c)
    \/ StoreTpm(c)
    \/ ReadTpd(c)
    \/ StoreTpd(c)
    \/ ReadCooldown(c)
    \/ StoreCooldown(c)
    \/ RetryPost(c)
    \/ ThreadRespondRetry(c)
    \/ PostRaises(c)
    \/ Return(c)

ConcurrentNext == \E c \in Callers : ThreadStep(c)
\* The replies to the grading threads: an answer with or without its usage, a
\* rate-limit or quota error, a transient failure.
ThreadReplies ==
    [statuses |-> {200, 429, 500}, hints |-> Hints \ {{"short", "long"}},
     code_hits |-> {FALSE}, usages |-> {0, 100}, bodies |-> {"ok", "not_json"},
     items |-> "all"]
ConcurrentInit ==
    DispatchInit([c \in Callers |-> [n |-> 1, calls |-> {GradeCall},
                                      replies |-> ThreadReplies]])
SpecConcurrent == ConcurrentInit /\ [][ConcurrentNext]_vars

(***************************************************************************)
(* generate_quiz.                                                          *)
(***************************************************************************)
finalize_returns_partial(buckets, need) ==
    [outcome |-> "ok", returned |-> merge_trim_to_counts(buckets, need)]

\* Steps 5 and 6: trim to the requested counts, and fail if still short.
finalize(buckets, need) ==
    LET final_items == merge_trim_to_counts(buckets, need)
    IN  IF Len(final_items) # Total(need)
        THEN [outcome |-> "shortfall", returned |-> <<>>]
        ELSE [outcome |-> "ok", returned |-> final_items]

\* The JSONResponse of the request.
Respond1(q) ==
    /\ quiz' = [q EXCEPT !.stage = "done"]
    /\ job' = [job EXCEPT ![1].result = ""]
    /\ UNCHANGED <<now, lim, cooldown, last, prev, cdlog, ncalls, quota, txt, pc, resp, grade, morevars>>

\* A request arrives: the primary call_groq.
GenRequest ==
    /\ quiz.stage = "none"
    /\ pc[1] = "idle"
    /\ \E need \in Needs :
          quiz' = [NoQuiz EXCEPT !.stage = "primary", !.need = need]
    /\ CallGroq(1, QuizPromptLen, GROQ_MAX_TOKENS)
    /\ UNCHANGED grade

\* The primary call raised (502), or its content does not parse (500).
GenPrimaryFails ==
    /\ quiz.stage = "primary"
    /\ pc[1] = "idle"
    /\ \/ /\ job[1].result # "content"
          /\ Respond1([quiz EXCEPT !.outcome = "dispatch_error"])
       \/ /\ job[1].result = "content"
          /\ \E out \in Contents(1) : out.parse # "ok"
          /\ Respond1([quiz EXCEPT !.outcome = "parse_error", !.unparsed = TRUE])

\* The primary content parses, and _filter_and_partition raises on it: the
\* exception leaves generate_quiz (line 767 is under no except), and the
\* framework answers 500.
GenPartitionRaises ==
    /\ quiz.stage = "primary"
    /\ pc[1] = "idle"
    /\ job[1].result = "content"
    /\ \E out \in Contents(1) :
          /\ out.parse = "ok"
          /\ filter_and_partition(out.arr).exc # ""
    /\ Respond1([quiz EXCEPT !.outcome = "exception"])

\* The first pass gave enough of every type: straight to steps 5 and 6.
GenPrimaryEnough ==
    /\ quiz.stage = "primary"
    /\ pc[1] = "idle"
    /\ job[1].result = "content"
    /\ \E out \in Contents(1) :
          /\ out.parse = "ok"
          /\ \E p \in {filter_and_partition(out.arr)} : \E b \in {p.val} :
                /\ p.exc = ""
                /\ counts_satisfied(b, quiz.need)
                /\ \E r \in {finalize(b, quiz.need)} :
                      Respond1([quiz EXCEPT !.buckets = b, !.have = Lens(b),
                                            !.outcome = r.outcome,
                                            !.returned = r.returned])

\* The first pass is short: _top_up_generation calls call_groq for the
\* missing counts.
GenTopUp ==
    /\ quiz.stage = "primary"
    /\ pc[1] = "idle"
    /\ job[1].result = "content"
    /\ \E out \in Contents(1) :
          /\ out.parse = "ok"
          /\ \E p \in {filter_and_partition(out.arr)} : \E b \in {p.val} :
                /\ p.exc = ""
                /\ ~counts_satisfied(b, quiz.need)
                /\ \E missing \in {missing_counts(Lens(b), quiz.need)} :
                      /\ quiz' = [quiz EXCEPT !.stage = "topup", !.buckets = b,
                                              !.have = Lens(b),
                                              !.topups = @ + 1,
                                              !.topup_req = missing]
                      /\ CallGroq(1, QuizPromptLen, small_cap(missing))
    /\ UNCHANGED grade

\* generate_quiz adds the partitioned extras to its buckets.
add_extras(buckets, ex) == [t \in Types |-> buckets[t] \o ex[t]]

\* The top-up raised, in call_groq, in extract_json_array or in
\* _filter_and_partition: generate_quiz logs it and goes on to steps 5 and 6
\* with what the first pass gave.
GenTopUpFails ==
    /\ quiz.stage = "topup"
    /\ pc[1] = "idle"
    /\ \E r \in {finalize(quiz.buckets, quiz.need)} :
          \/ /\ job[1].result # "content"
             /\ Respond1([quiz EXCEPT !.outcome = r.outcome,
                                      !.returned = r.returned])
          \/ /\ job[1].result = "content"
             /\ \E out \in Contents(1) : out.parse # "ok"
             /\ Respond1([quiz EXCEPT !.outcome = r.outcome,
                                      !.returned = r.returned,
                                      !.unparsed = TRUE])
          \/ /\ job[1].result = "content"
             /\ \E out \in Contents(1) :
                   /\ out.parse = "ok"
                   /\ filter_and_partition(out.arr).exc # ""
             /\ Respond1([quiz EXCEPT !.outcome = r.outcome,
                                      !.returned = r.returned])

\* The top-up returned its extras: partition them again, add them to the
\* buckets, then steps 5 and 6.
GenAfterTopUp ==
    /\ quiz.stage = "topup"
    /\ pc[1] = "idle"
    /\ job[1].result = "content"
    /\ \E out \in Contents(1) :
          /\ out.parse = "ok"
          /\ \E p2 \in {filter_and_partition(out.arr)} :
             \E extras \in {merge_trim_to_counts(p2.val, quiz.topup_req)} :
             \E ex \in {IF extras # <<>> THEN filter_and_partition(extras)
                        ELSE Returns(NoBuckets)} :
             \E b \in {IF ex.exc = "" THEN add_extras(quiz.buckets, ex.val)
                       ELSE quiz.buckets} :
             \E r \in {finalize(b, quiz.need)} :
                p2.exc = "" /\
                Respond1([quiz EXCEPT !.buckets = b, !.outcome = r.outcome,
                                      !.returned = r.returned])

QuizNext ==
    \/ GenRequest
    \/ GenPrimaryFails
    \/ GenPartitionRaises
    \/ GenPrimaryEnough
    \/ GenTopUp
    \/ GenTopUpFails
    \/ GenAfterTopUp
    \/ LoopHead(1)
    \/ Reserve(1)
    \/ Respond(1)
    \/ RetryPost(1)
    \/ RespondRetry(1)
    \/ PostRaises(1)
    \/ Return(1)

QuizInit ==
    DispatchInit([c \in Callers |-> [NoDispatches EXCEPT !.replies = QuizReplies]])

SpecQuiz == QuizInit /\ [][QuizNext]_vars

(***************************************************************************)
(* Output sanitization: _clean_model_output.                               *)
(***************************************************************************)
\* Does `pat` (lower case) occur in str at position i, letter case ignored?
MatchesAt(str, i, pat) ==
    /\ i + Len(pat) - 1 <= Len(str)
    /\ Lower(SubSeq(str, i, i + Len(pat) - 1)) = pat

\* The first position from `from` on where `pat` occurs, 0 if there is none.
FindFrom(str, from, pat) ==
    LET at == {i \in from..Len(str) : MatchesAt(str, i, pat)}
    IN  IF at = {} THEN 0 ELSE CHOOSE i \in at : \A k \in at : i <= k

ThinkOpen == <<"<", "t", "h", "i", "n", "k", ">">>
ThinkClose == <<"<", "/", "t", "h", "i", "n", "k", ">">>
Fence == <<"BT", "BT", "BT">>
JsonTag == <<"j", "s", "o", "n">>

RECURSIVE think_sub(_)
\* _THINK_RE.sub("", text): left to right, each <think> that has a </think>
\* after it goes, up to the nearest one.
think_sub(text) ==
    IF text = <<>> THEN <<>>
    ELSE The({IF close # 0
              THEN think_sub(SubSeq(text, close + Len(ThinkClose), Len(text)))
              ELSE <<Head(text)>> \o think_sub(Tail(text)) :
              close \in {IF MatchesAt(text, 1, ThinkOpen)
                         THEN FindFrom(text, 1 + Len(ThinkOpen), ThinkClose)
                         ELSE 0}})

\* The match of _FENCE_RE that starts at i, as <<start of group 1, position
\* of the closing fence>>; <<0, 0>> if there is none.  The optional "json"
\* is taken when a closing fence follows it, and left to the group otherwise.
fence_match_at(text, i) ==
    IF ~MatchesAt(text, i, Fence) THEN <<0, 0>>
    ELSE The({IF with # 0 THEN <<i + 7, with>>
              ELSE The({IF without # 0 THEN <<i + 3, without>> ELSE <<0, 0>> :
                        without \in {FindFrom(text, i + 3, Fence)}}) :
              with \in {IF MatchesAt(text, i + 3, JsonTag)
                        THEN FindFrom(text, i + 7, Fence) ELSE 0}})

\* _FENCE_RE.search(text): group(1) of the leftmost match, as a sequence of
\* at most one str.
fence_search(text) ==
    LET starts == {i \in 1..Len(text) : fence_match_at(text, i)[2] # 0}
    IN  IF starts = {} THEN <<>>
        ELSE The({<<SubSeq(text, m[1], m[2] - 1)>> :
                  m \in {fence_match_at(text, CHOOSE i \in starts :
                                                  \A k \in starts : i <= k)}})

remove_bom(text) == LET NotBom(ch) == ch # "BOM" IN Filter(text, NotBom)

FinalStrip == {"BT", " ", "NL", "CR", "TAB"}

clean_is_identity(text) == text

\* _clean_model_output from the fence search on
clean_unfenced(stripped) ==
    The({StripChars(remove_bom(OrElse(MapSeq(Strip, m), stripped)), FinalStrip) :
         m \in {fence_search(stripped)}})

clean_model_output(text) ==
    The({clean_unfenced(stripped) : stripped \in {Strip(think_sub(text))}})

\* Texts a model may emit: up to MaxPieces pieces, each a piece of a
\* reasoning marker, a fence, or a character.
MaxPieces == 4
Pieces ==
    {<<"<", "t", "h", "i">>, <<"n", "k", ">">>, ThinkOpen, ThinkClose,
     <<"<", "T", "H", "I", "N", "K", ">">>, Fence, <<"BT">>,
     <<"J", "s", "o", "n">>, <<"a">>, <<" ">>, <<"BOM">>, <<"FF">>}

RECURSIVE Flatten(_)
Flatten(pieces) ==
    IF pieces = <<>> THEN <<>> ELSE Head(pieces) \o Flatten(Tail(pieces))

Texts == {Flatten(ps) : ps \in SeqsUpTo(Pieces, MaxPieces)}

CleanInit ==
    /\ LimiterInit
    /\ quota = [c \in Callers |-> NoDispatches]
    /\ pc = [c \in Callers |-> "idle"]
    /\ job = [c \in Callers |-> IdleJob]
    /\ quiz = NoQuiz
    /\ resp = NoResp
    /\ NoMore
    /\ \E t \in Texts : txt = [NoText EXCEPT !.input = t]

\* _clean_model_output(text)
CleanOnce ==
    /\ txt.step = 0
    /\ txt' = [txt EXCEPT !.step = 1, !.once = clean_model_output(txt.input)]
    /\ UNCHANGED <<limvars, quota, pc, job, quiz, resp, grade, morevars>>

\* _clean_model_output of the text it returned
CleanAgain ==
    /\ txt.step = 1
    /\ txt' = [txt EXCEPT !.step = 2, !.twice = clean_model_output(txt.once)]
    /\ UNCHANGED <<limvars, quota, pc, job, quiz, resp, grade, morevars>>

CleanNext == CleanOnce \/ CleanAgain

SpecClean == CleanInit /\ [][CleanNext]_vars

(***************************************************************************)
(* extract_json_array.  A parsed JSON value is a record: a str (s) or an   *)
(* array (items).  The texts hold no digit and no true, false or null, so  *)
(* strs and arrays are the values json.loads can find in them.             *)
(***************************************************************************)
JStr(str) == [k |-> "str", s |-> str, items |-> <<>>]
JArr(items) == [k |-> "arr", s |-> <<>>, items |-> items]
\* The outcome of parsing at a position: failure, or a value and the position
\* after it.
JFail == [ok |-> FALSE, val |-> JStr(<<>>), next |-> 0]
JOk(val, next) == [ok |-> TRUE, val |-> val, next |-> next]

\* the whitespace of the JSON grammar
JsonWs == {" ", "NL", "TAB", "CR"}
\* control characters, which json.loads (strict) rejects inside a str
Control == {"NL", "TAB", "CR", "FF"}

RECURSIVE SkipWs(_, _)
SkipWs(t, i) == IF i <= Len(t) /\ t[i] \in JsonWs THEN SkipWs(t, i + 1) ELSE i

RECURSIVE StringEnd(_, _)
\* the position of the quote that closes a str whose body starts at i; 0 if
\* the text or a control character comes first
StringEnd(t, i) ==
    IF i > Len(t) THEN 0
    ELSE IF t[i] = "DQ" THEN i
    ELSE IF t[i] \in Control THEN 0
    ELSE StringEnd(t, i + 1)

RECURSIVE parse_value(_, _)
RECURSIVE parse_elems(_, _, _)
\* the JSON value that starts at position i
parse_value(t, i) ==
    IF i > Len(t) THEN JFail
    ELSE IF t[i] = "DQ"
    THEN The({IF e = 0 THEN JFail ELSE JOk(JStr(SubSeq(t, i + 1, e - 1)), e + 1) :
              e \in {StringEnd(t, i + 1)}})
    ELSE IF t[i] = "["
    THEN The({IF j <= Len(t) /\ t[j] = "]" THEN JOk(JArr(<<>>), j + 1)
              ELSE parse_elems(t, j, <<>>) :
              j \in {SkipWs(t, i + 1)}})
    ELSE JFail

\* the rest of an array whose next element starts at position i
parse_elems(t, i, acc) ==
    The({IF ~v.ok THEN JFail
         ELSE The({IF j > Len(t) THEN JFail
                   ELSE IF t[j] = "]" THEN JOk(JArr(Append(acc, v.val)), j + 1)
                   ELSE IF t[j] = ","
                   THEN parse_elems(t, SkipWs(t, j + 1), Append(acc, v.val))
                   ELSE JFail :
                   j \in {SkipWs(t, v.next)}}) :
         v \in {parse_value(t, i)}})

\* json.loads(t): one value with whitespace around it, or JSONDecodeError
json_loads(t) ==
    The({IF v.ok /\ SkipWs(t, v.next) = Len(t) + 1 THEN v ELSE JFail :
         v \in {parse_value(t, SkipWs(t, 1))}})

\* text.find("[") and text.rfind("]"), 0 for -1
find_open(t) ==
    LET at == {i \in 1..Len(t) : t[i] = "["}
    IN  IF at = {} THEN 0 ELSE CHOOSE i \in at : \A k \in at : i <= k
rfind_close(t) ==
    LET at == {i \in 1..Len(t) : t[i] = "]"}
    IN  IF at = {} THEN 0 ELSE CHOOSE i \in at : \A k \in at : i >= k

\* extract_json_array after the cleaning: the slice from the first [ to the
\* last ], parsed
extract_from_clean(text) ==
    The({IF c[1] = 0 \/ c[2] = 0 \/ c[2] <= c[1] THEN JFail
         ELSE json_loads(SubSeq(text, c[1], c[2])) :
         c \in {<<find_open(text), rfind_close(text)>>}})

\* extract_json_array(text): the array, or ValueError (ok = FALSE)
extract_json_array(text) ==
    The({extract_from_clean(cleaned) : cleaned \in {clean_model_output(text)}})

RECURSIVE DumpItems(_)
RECURSIVE Dumps(_)
\* json.dumps(v) for the values above
Dumps(v) ==
    IF v.k = "str" THEN <<"DQ">> \o v.s \o <<"DQ">>
    ELSE <<"[">> \o DumpItems(v.items) \o <<"]">>
DumpItems(items) ==
    IF items = <<>> THEN <<>>
    ELSE IF Len(items) = 1 THEN Dumps(items[1])
    ELSE Dumps(items[1]) \o <<",", " ">> \o DumpItems(Tail(items))

\* Strs a JSON array may hold: plain ones, ones with a bracket, with a
\* fence, with a reasoning block, with a byte-order mark.
ArrayStrs ==
    {JStr(<<>>), JStr(<<"a">>), JStr(<<"a", " ", "a">>), JStr(<<"a", "]">>),
     JStr(<<"[", "a">>), JStr(Fence), JStr(ThinkOpen \o <<"a">> \o ThinkClose),
     JStr(<<"a", "BOM">>)}
MaxArray == 2
Arrays == {JArr(items) : items \in SeqsUpTo(ArrayStrs, MaxArray)}
\* Prose around the array: none, words, words with brackets, a reasoning
\* block, a stray backtick.
Prose ==
    {<<>>, <<"a", " ">>, <<"NL", "a", "NL">>, <<"a", "[", "a", "]", " ">>,
     <<"a", "]", " ">>, <<" ", "[">>,
     ThinkOpen \o <<"a", "[">> \o ThinkClose \o <<"NL">>, <<"BT">>}
\* The optional fence: none, ``` or ```json, each with a line break inside.
FenceOpens == {<<>>, Fence \o <<"NL">>, Fence \o JsonTag \o <<"NL">>}
FenceClose(open) == IF open = <<>> THEN <<>> ELSE <<"NL">> \o Fence

ExtractInit ==
    /\ LimiterInit
    /\ quota = [c \in Callers |-> NoDispatches]
    /\ pc = [c \in Callers |-> "idle"]
    /\ job = [c \in Callers |-> IdleJob]
    /\ quiz = NoQuiz
    /\ txt = NoText
    /\ resp = NoResp
    /\ fix = NoFix
    /\ grade = NoGrade
    /\ events = NoEvents
    /\ part = NoPart
    /\ \E arr \in Arrays, before \in Prose, after \in Prose, open \in FenceOpens :
          raw = [NoRaw EXCEPT
                   !.array = arr,
                   !.text = before \o open \o Dumps(arr) \o FenceClose(open) \o after]

\* extract_json_array(text)
Extract ==
    /\ raw.step = 0
    /\ \E r \in {extract_json_array(raw.text)} :
          raw' = [raw EXCEPT !.step = 1, !.ok = r.ok,
                             !.result = IF r.ok THEN r.val ELSE <<>>]
    /\ UNCHANGED <<limvars, quota, pc, job, quiz, txt, resp, fix, grade, events, part>>

ExtractNext == Extract

SpecExtract == ExtractInit /\ [][ExtractNext]_vars

(***************************************************************************)
(* _repair_mcq applied to one item.                                        *)
(***************************************************************************)
\* Choices a model may give: a word, the same word not yet normalized, two
\* words close to each other.
RepairValues ==
    {Word("a", "a", "a"), StrV(<<" ", "a", "a", "a">>), Word("a", "a", "b"),
     Word("b", "b", "b")}
MinChoices == 4
MaxChoices == 6
\* Answers: a choice, a near miss of two choices, a word close to none.
RepairAnswers == {Word("a", "a", "a"), Word("a", "b", "b"), Word("x", "y", "z")}

Paris == <<"P", "a", "r", "i", "s", ",", " ", "F", "r", "a", "n", "c", "e">>
ItemParis ==
    MkItem("mcq", Question, TRUE,
           <<StrV(Paris \o <<".">>), StrV(<<"L", "o", "n", "d", "o", "n">>),
             StrV(<<"B", "e", "r", "l", "i", "n">>), StrV(<<"R", "o", "m", "e">>)>>,
           StrV(Paris))
\* Items with a choice that is not a str (None among 6 or 5 choices, true or
\* false among 4, true among 5), with no list of choices, with an answer that
\* is not a str, and of another type.
OddItems ==
    {ItemParis, ItemMcqTrueChoice,
     MkItem("mcq", Question, TRUE,
            <<BoolV(TRUE), Word("a", "a", "a"), Word("b", "b", "b"),
              Word("c", "c", "c")>>, Word("a", "a", "a")),
     MkItem("mcq", Question, TRUE,
            <<Word("a", "a", "a"), BoolV(TRUE), Word("b", "b", "b"),
              Word("c", "c", "c")>>, Word("a", "a", "a")),
     MkItem("mcq", Question, TRUE,
            <<Word("a", "a", "a"), BoolV(FALSE), Word("b", "b", "b"),
              Word("c", "c", "c")>>, Word("a", "a", "b")),
     MkItem("mcq", Question, TRUE,
            <<BoolV(TRUE), Word("a", "a", "b"), Word("b", "b", "b"),
              Word("c", "c", "c"), Word("a", "a", "a")>>, Word("a", "a", "a")),
     MkItem("mcq", Question, TRUE,
            <<NoneV, Word("a", "a", "b"), NoneV, Word("b", "b", "b"),
              Word("a", "a", "a"), Word("c", "c", "c")>>, Word("a", "a", "a")),
     MkItem("mcq", Question, TRUE,
            <<NoneV, Word("a", "a", "b"), NoneV, Word("b", "b", "b"),
              Word("a", "a", "a")>>, Word("a", "b", "b")),
     MkItem("mcq", Question, TRUE,
            <<Word("a", "a", "b"), Word("b", "b", "b"), Word("c", "c", "c"),
              Word("d", "d", "d"), Word("a", "a", "a")>>, NoneV),
     MkItem("mcq", Question, FALSE, <<>>, Word("a", "a", "a")),
     ItemShort}

RepairItems ==
    OddItems \cup
    {MkItem("mcq", Question, TRUE, ch, ans) :
        ch \in UNION {[1..n -> RepairValues] : n \in MinChoices..MaxChoices},
        ans \in RepairAnswers}

RepairInit ==
    /\ LimiterInit
    /\ quota = [c \in Callers |-> NoDispatches]
    /\ pc = [c \in Callers |-> "idle"]
    /\ job = [c \in Callers |-> IdleJob]
    /\ quiz = NoQuiz
    /\ txt = NoText
    /\ resp = NoResp
    /\ raw = NoRaw
    /\ grade = NoGrade
    /\ events = NoEvents
    /\ part = NoPart
    /\ \E item \in RepairItems : fix = [NoFix EXCEPT !.item = item]

Repair ==
    /\ fix.step = 0
    /\ \E r \in {repair_mcq(fix.item)} :
          fix' = [fix EXCEPT !.step = 1, !.out = r.val, !.exc = r.exc]
    /\ UNCHANGED <<limvars, quota, pc, job, quiz, txt, resp, raw, grade, events, part>>

RepairNext == Repair

SpecRepair == RepairInit /\ [][RepairNext]_vars

(***************************************************************************)
(* _filter_and_partition applied to one parsed array.                      *)
(***************************************************************************)
MaxPart == 3

\* Items that do not pass as they are: an mcq with a choice of 2 characters,
\* an mcq with 5 choices (the answer last), a short answer that is blank, a
\* true/false answered "yes", an identification whose answer has spaces to
\* spare, an essay without a question, an item of a type nobody asked for.
ItemMcqShortChoice ==
    MkItem("mcq", Question, TRUE,
           <<Word("a", "a", "a"), StrV(<<"b", "b", " ">>),
             Word("c", "c", "c"), Word("d", "d", "d")>>, Word("a", "a", "a"))
ItemMcqFive ==
    MkItem("mcq", Question, TRUE, FourChoices \o <<Word("a", "a", "b")>>,
           Word("a", "a", "b"))
ItemShortBlank == MkItem("short_answer", Question, FALSE, <<>>, StrV(<<" ">>))
ItemTfYes == MkItem("true_false", Question, FALSE, <<>>, Word("y", "e", "s"))
ItemIdfSpaced ==
    MkItem("identification", Question, FALSE, <<>>,
           StrV(<<" ", "a", " ", " ", "b">>))
ItemEssayNoQuestion == MkItem("essay", NoneV, FALSE, <<>>, Word("a", " ", "b"))
ItemOther == MkItem("matching", Question, FALSE, <<>>, Word("a", "b", "c"))
PartPool ==
    QuizPool \cup {ItemMcqShortChoice, ItemMcqFive, ItemShortBlank, ItemTfYes,
                   ItemIdfSpaced, ItemEssayNoQuestion, ItemOther, NonDict}

PartInit ==
    /\ LimiterInit
    /\ quota = [c \in Callers |-> NoDispatches]
    /\ pc = [c \in Callers |-> "idle"]
    /\ job = [c \in Callers |-> IdleJob]
    /\ quiz = NoQuiz
    /\ txt = NoText
    /\ resp = NoResp
    /\ raw = NoRaw
    /\ fix = NoFix
    /\ grade = NoGrade
    /\ events = NoEvents
    /\ \E items \in SeqsUpTo(PartPool, MaxPart) : part = [NoPart EXCEPT !.items = items]

\* _filter_and_partition(items)
Partition ==
    /\ part.step = 0
    /\ \E r \in {filter_and_partition(part.items)} :
          part' = [part EXCEPT !.step = 1, !.buckets = r.val, !.exc = r.exc]
    /\ UNCHANGED <<limvars, quota, pc, job, quiz, txt, resp, raw, fix, grade, events>>

PartNext == Partition

SpecPart == PartInit /\ [][PartNext]_vars

(***************************************************************************)
(* grade_short_answer.                                                     *)
(***************************************************************************)
\* the characters [a-z0-9] among those used
LowerAlnum ==
    {"a", "b", "c", "d", "e", "f", "h", "i", "j", "k", "l", "m", "n", "o", "p",
     "q", "r", "s", "t", "u", "x", "y", "z"}

normalize_id_keeps_case(str) ==
    LET Kept(ch) == ch \in LowerAlnum IN Filter(str, Kept)

\* normalize_id: re.sub(r'[^a-z0-9]', '', s.lower())
normalize_id(str) ==
    LET Kept(ch) == ch \in LowerAlnum IN Filter(Lower(str), Kept)

\* `x in t` for strs
Contains(t, x) == \E i \in 1..(Len(t) - Len(x) + 1) : SubSeq(t, i, i + Len(x) - 1) = x

TrueWord == <<"t", "r", "u", "e">>
FalseWord == <<"f", "a", "l", "s", "e">>

bool_from_text_no_prefix(text) ==
    The({IF Contains(t, TrueWord) /\ ~Contains(t, FalseWord) THEN "true"
         ELSE IF Contains(t, FalseWord) /\ ~Contains(t, TrueWord) THEN "false"
         ELSE "none" :
         t \in {Lower(Strip(clean_model_output(text)))}})

\* _bool_from_text: "true", "false" or "none"
bool_from_text(text) ==
    The({IF Contains(t, TrueWord) /\ ~Contains(t, FalseWord) THEN "true"
         ELSE IF Contains(t, FalseWord) /\ ~Contains(t, TrueWord) THEN "false"
         ELSE IF Len(t) >= 4 /\ SubSeq(t, 1, 4) = TrueWord THEN "true"
         ELSE IF Len(t) >= 5 /\ SubSeq(t, 1, 5) = FalseWord THEN "false"
         ELSE "none" :
         t \in {Lower(Strip(clean_model_output(text)))}})

RECURSIVE Tokens(_, _)
\* set(re.findall(r"[a-z0-9]+", str)); word is the run being read
Tokens(str, word) ==
    IF str = <<>> THEN IF word = <<>> THEN {} ELSE {word}
    ELSE IF Head(str) \in LowerAlnum THEN Tokens(Tail(str), Append(word, Head(str)))
    ELSE (IF word = <<>> THEN {} ELSE {word}) \cup Tokens(Tail(str), <<>>)

lexical_backup_three_only(student, reference) ==
    The({IF sr[1] = <<>> \/ sr[2] = <<>> THEN FALSE
         ELSE \/ Cardinality(Tokens(sr[1], <<>>) \cap Tokens(sr[2], <<>>)) >= 3
              \/ RatioAtLeast(sr[1], sr[2], 8, 10) :
         sr \in {<<Lower(norm_text(student)), Lower(norm_text(reference))>>}})

lexical_backup_ratio_only(student, reference) ==
    The({sr[1] # <<>> /\ sr[2] # <<>> /\ RatioAtLeast(sr[1], sr[2], 8, 10) :
         sr \in {<<Lower(norm_text(student)), Lower(norm_text(reference))>>}})

\* _lexical_backup(student, reference)
lexical_backup(student, reference) ==
    The({IF sr[1] = <<>> \/ sr[2] = <<>> THEN FALSE
         ELSE The({IF \/ ov[1] >= 3
                      \/ ov[2] > 0 /\ ov[1] >= Max(2, ov[2] \div 2)
                   THEN TRUE
                   ELSE RatioAtLeast(sr[1], sr[2], 8, 10) :
                   ov \in {<<Cardinality(Tokens(sr[1], <<>>) \cap Tokens(sr[2], <<>>)),
                             Cardinality(Tokens(sr[2], <<>>))>>}}) :
         sr \in {<<Lower(norm_text(student)), Lower(norm_text(reference))>>}})

Mitochondria == <<"M", "i", "t", "o", "c", "h", "o", "n", "d", "r", "i", "a">>
Mitochondrion == <<"M", "i", "t", "o", "c", "h", "o", "n", "d", "r", "i", "o", "n">>
TheMitochondria == <<"t", "h", "e", " ">> \o Mitochondria \o <<"!">>
\* student answers and reference answers (quiz_questions.correct_answer)
StudentAnswers ==
    {Mitochondria, Mitochondrion, <<"T", "h", "e", "-">> \o Mitochondria,
     <<"a", " ", "b", " ", "c">>, <<"C", " ", "b", "-", "a", " ", "d">>, <<"x">>}
ReferenceAnswers ==
    {TheMitochondria, <<"c", " ", "b", " ", "a", " ">>, <<"a", " ", "b">>, <<"b">>,
     <<" ">>}
QuestionTypes == {"identification", "short_answer", "essay"}
\* what the grading model may reply
GradeContents ==
    {<<"T", "R", "U", "E">>, <<"F", "a", "l", "s", "e", ".">>,
     <<"t", "r", "u", "e", " ", "f", "a", "l", "s", "e">>,
     <<" ", "F", "a", "l", "s", "e", " ", "t", "r", "u", "e">>,
     <<"a", " ", "t", "r", "u", "e", " ", "f", "a", "l", "s", "e">>, <<"a">>}

\* The response of grade_short_answer; `by` says which branch decided.
Graded(by, is_correct) ==
    grade' = [grade EXCEPT !.stage = "done", !.by = by, !.is_correct = is_correct]

\* A request that is answered without call_groq: the row cannot be read, the
\* reference answer is empty, or the question is an identification.
GradeDirect ==
    /\ grade.stage = "none"
    /\ pc[1] = "idle"
    /\ \E type \in QuestionTypes, student \in StudentAnswers,
          reference \in ReferenceAnswers, db \in {"ok", "error"} :
          \E ref \in {Strip(reference)} :
             /\ db = "error" \/ ref = <<>> \/ type = "identification"
             /\ grade' =
                   [NoGrade EXCEPT
                      !.stage = "done", !.type = type, !.student = student,
                      !.ref = ref,
                      !.by = IF db = "error" THEN "db_error"
                             ELSE IF ref = <<>> THEN "no_reference"
                             ELSE "identification",
                      !.is_correct =
                          /\ db # "error"
                          /\ ref # <<>>
                          /\ normalize_id(student) # <<>>
                          /\ normalize_id(ref) # <<>>
                          /\ normalize_id(student) = normalize_id(ref)]
    /\ UNCHANGED <<limvars, quota, pc, job, quiz, txt, resp, morevars>>

\* A short_answer or essay request: the grading prompt goes to call_groq.
GradeAsk ==
    /\ grade.stage = "none"
    /\ pc[1] = "idle"
    /\ \E type \in QuestionTypes \ {"identification"}, student \in StudentAnswers,
          reference \in ReferenceAnswers :
          /\ Strip(reference) # <<>>
          /\ grade' = [NoGrade EXCEPT !.stage = "grading", !.type = type,
                                      !.student = student,
                                      !.ref = Strip(reference)]
    /\ CallGroq(1, GradePromptLen, GradeCap)
    /\ UNCHANGED quiz

\* call_groq returned the model's reply.
GradeFromReply ==
    /\ grade.stage = "grading"
    /\ pc[1] = "idle"
    /\ job[1].result = "content"
    /\ \E reply \in GradeContents :
       \E val \in {bool_from_text(reply)} :
          grade' = [grade EXCEPT
                      !.stage = "done",
                      !.reply = reply,
                      !.by = IF val = "none" THEN "lexical" ELSE "model",
                      !.is_correct =
                          IF val = "none"
                          THEN lexical_backup(grade.student, grade.ref)
                          ELSE val = "true"]
    /\ job' = [job EXCEPT ![1].result = ""]
    /\ UNCHANGED <<limvars, quota, pc, quiz, txt, resp, morevars>>

\* call_groq raised: the lexical fallback grades.
GradeFallback ==
    /\ grade.stage = "grading"
    /\ pc[1] = "idle"
    /\ job[1].result \notin {"", "content"}
    /\ Graded("fallback", lexical_backup(grade.student, grade.ref))
    /\ job' = [job EXCEPT ![1].result = ""]
    /\ UNCHANGED <<limvars, quota, pc, quiz, txt, resp, morevars>>

GradeNext ==
    \/ GradeDirect
    \/ GradeAsk
    \/ GradeFromReply
    \/ GradeFallback
    \/ LoopHead(1)
    \/ Reserve(1)
    \/ Respond(1)
    \/ RetryPost(1)
    \/ RespondRetry(1)
    \/ PostRaises(1)
    \/ Return(1)

GradeInit == QuizInit

SpecGrade == GradeInit /\ [][GradeNext]_vars

(***************************************************************************)
(* The event loop: generate_quiz and the socket.io handlers are coroutines *)
(* of one asyncio loop.                                                    *)
(***************************************************************************)
MaxEvents == 2

\* generate_quiz has no await after reading the upload: call_groq,
\* requests.post and time.sleep return to it without yielding, so the
\* coroutine holds the loop from its call of call_groq to its response.
LoopHeld == quiz.stage \in {"primary", "topup"}

\* The handlers that have begun and not ended.
RECURSIVE SumUpTo(_, _)
SumUpTo(f, k) == IF k < 0 THEN 0 ELSE f[k] + SumUpTo(f, k - 1)
Suspended == SumUpTo(events.suspended, MaxAwaits - 1)

\* A socket.io event is queued for the loop.  Its handler will come to 3
\* awaits (student_join, host_open_quiz), 2 (student_answer, disconnect of a
\* participant), 1 (host_start, host_end, disconnect with no session) or
\* none (an event without a room).
EventArrives ==
    /\ Len(events.queued) + Suspended < MaxEvents
    /\ \E awaits \in 0..MaxAwaits :
          events' = [events EXCEPT !.queued = Append(@, awaits)]
    /\ UNCHANGED <<limvars, quota, pc, job, quiz, txt, resp, raw, fix, grade, part>>

\* A handler with `awaits` awaits before it runs on: it passes them all and
\* ends, or one of them suspends it, with fewer than `awaits` awaits ahead.
RunsOn(awaits) ==
    {[ended |-> TRUE, ahead |-> 0]}
        \cup {[ended |-> FALSE, ahead |-> k] : k \in 0..(awaits - 1)}

\* The handlers suspended, after one has run on to `stop`.
Stopped(suspended, stop) ==
    IF stop.ended THEN suspended
    ELSE [suspended EXCEPT ![stop.ahead] = @ + 1]

\* The loop starts the handler of the first queued event.  The handler runs
\* to its end if none of its awaits (save_session, enter_room, get_session,
\* emit) suspends it, and otherwise stays suspended at that await, the loop
\* free for other coroutines.
HandleEvent ==
    /\ events.queued # <<>>
    /\ ~LoopHeld
    /\ \E stop \in RunsOn(Head(events.queued)) :
          events' = [queued |-> Tail(events.queued),
                     suspended |-> Stopped(events.suspended, stop)]
    /\ UNCHANGED <<limvars, quota, pc, job, quiz, txt, resp, raw, fix, grade, part>>

\* The loop resumes a suspended handler: it runs on to its next await that
\* suspends it, or to its end.
ResumeHandler ==
    /\ ~LoopHeld
    /\ \E k \in 0..(MaxAwaits - 1) :
          /\ events.suspended[k] > 0
          /\ \E stop \in RunsOn(k) :
                events' = [events EXCEPT !.suspended =
                             Stopped([@ EXCEPT ![k] = @ - 1], stop)]
    /\ UNCHANGED <<limvars, quota, pc, job, quiz, txt, resp, raw, fix, grade, part>>

LoopNext ==
    \/ QuizNext
    \/ EventArrives
    \/ HandleEvent
    \/ ResumeHandler

LoopInit ==
    DispatchInit([c \in Callers |-> [NoDispatches EXCEPT !.replies = LoopReplies]])

SpecLoop == LoopInit /\ [][LoopNext]_vars

(***************************************************************************)
(* Claims about the RateLimiter.                                           *)
(***************************************************************************)
\* The latest two tracker calls are reserve(e) then adjust_after_response(e, a)
\* and the adjust call rolled no window.
ReserveThenAdjust ==
    /\ last.op = "adjust"
    /\ prev.op = "reserve"
    /\ prev.est = last.est
    /\ last.mid = last.pre

\* C6: reserve(e) followed by adjust_after_response(e, a), with no window
\* rollover in between, leaves tpm_used and tpd_used at the value reserve(e)
\* found (after its own lazy rollover, which is the value at entry when it
\* rolls nothing) plus exactly a, clamped at 0.
C6_ReserveAdjustNetActual ==
    ReserveThenAdjust =>
        /\ lim.tpm_used = Max(0, prev.mid.tpm_used + last.actual)
        /\ lim.tpd_used = Max(0, prev.mid.tpd_used + last.actual)

C6_Witness ==
    /\ ReserveThenAdjust
    /\ prev.mid = prev.pre
    /\ prev.pre.tpm_used > 0
    /\ last.est > last.actual
    /\ last.actual > 0
    /\ lim.tpm_used = prev.pre.tpm_used + last.actual

\* Two consecutive tracker calls with a minute boundary crossed between them:
\* the later call found a stale minute epoch.
MinuteCrossed ==
    /\ last.op # "none"
    /\ prev.op # "none"
    /\ last.mid.minute_epoch # last.pre.minute_epoch

\* C7 as stated: the rollover of the later call zeroes rpm_used and tpm_used
\* and leaves rpd_used and tpd_used at their previous values.
C7_Original ==
    MinuteCrossed =>
        /\ last.mid.rpm_used = 0
        /\ last.mid.tpm_used = 0
        /\ last.mid.rpd_used = last.pre.rpd_used
        /\ last.mid.tpd_used = last.pre.tpd_used

\* C7 amended: the rollover of the later call zeroes rpm_used and tpm_used;
\* rpd_used and tpd_used keep their previous values when the day epoch is
\* still the same, and are zeroed too when the boundary crossed is also a day
\* boundary.
C7_MinuteRollover ==
    MinuteCrossed =>
        /\ last.mid.rpm_used = 0
        /\ last.mid.tpm_used = 0
        /\ IF last.mid.day_epoch = last.pre.day_epoch
           THEN /\ last.mid.rpd_used = last.pre.rpd_used
                /\ last.mid.tpd_used = last.pre.tpd_used
           ELSE /\ last.mid.rpd_used = 0
                /\ last.mid.tpd_used = 0

C7_Witness ==
    /\ MinuteCrossed
    /\ last.mid.day_epoch = last.pre.day_epoch
    /\ last.pre.rpm_used > 0
    /\ last.pre.tpm_used > 0
    /\ last.mid.rpd_used > 0
    /\ last.mid.tpd_used > 0

\* set_cooldown(m, s1) was followed by set_cooldown(m, s2) with s2 < s1.
ShorterCooldownAfter(m) == cdlog[m].n = 2 /\ cdlog[m].s2 < cdlog[m].s1

\* C8 as stated: the second, shorter set_cooldown leaves the expiry at the
\* value the first call established.
C8_Original ==
    \A m \in Models : ShorterCooldownAfter(m) => cooldown[m] = cdlog[m].e1

\* C8 amended: the second call leaves the expiry at max(E1, t2 + s2), E1
\* being the expiry after the first call and t2 the time of the second: never
\* earlier than E1, unchanged when t2 + s2 <= E1, moved to t2 + s2 otherwise.
C8_MaxMerge ==
    \A m \in Models :
        ShorterCooldownAfter(m) =>
            /\ cooldown[m] >= cdlog[m].e1
            /\ cdlog[m].t2 + cdlog[m].s2 <= cdlog[m].e1 => cooldown[m] = cdlog[m].e1
            /\ cdlog[m].t2 + cdlog[m].s2 > cdlog[m].e1
                   => cooldown[m] = cdlog[m].t2 + cdlog[m].s2

C8_Witness ==
    \E m \in Models :
        /\ ShorterCooldownAfter(m)
        /\ cdlog[m].t2 > cdlog[m].t1
        /\ cooldown[m] = cdlog[m].e1
        /\ cooldown[m] = cdlog[m].t1 + cdlog[m].s1

(***************************************************************************)
(* Claims about generate_quiz.                                             *)
(***************************************************************************)
Succeeded == quiz.stage = "done" /\ quiz.outcome = "ok"

CountOfType(items, t) == Cardinality({i \in 1..Len(items) : items[i].type = t})

ClaimedOrder == <<"mcq", "short_answer", "true_false", "identification", "essay">>
PlaceOf(t) == CHOOSE i \in 1..Len(ClaimedOrder) : ClaimedOrder[i] = t

\* C1: a success carries, for each type, exactly the requested number of
\* items of that type, all mcq first, then short_answer, true_false,
\* identification and essay, whatever the primary and top-up outputs were.
C1_ExactCountsInOrder ==
    Succeeded =>
        /\ \A t \in Types : CountOfType(quiz.returned, t) = quiz.need[t]
        /\ \A i, j \in 1..Len(quiz.returned) :
              i < j => PlaceOf(quiz.returned[i].type) <= PlaceOf(quiz.returned[j].type)

C1_Witness ==
    /\ Succeeded
    /\ quiz.topups = 1
    /\ Len(quiz.returned) = 2
    /\ quiz.returned[1].type = "short_answer"
    /\ quiz.returned[2].type = "essay"
    /\ quiz.have["essay"] = 1

\* The request got past the primary call, its parse and its partition, and
\* some type is still short once the top-up round (if any) is over.
StillShort ==
    /\ quiz.stage = "done"
    /\ quiz.outcome \notin {"dispatch_error", "parse_error", "exception"}
    /\ \E t \in Types : Len(quiz.buckets[t]) < quiz.need[t]

\* C2: when some type is still short after the top-up round, the top-up
\* having failed or not, the response is the shortfall failure; an array is
\* never returned with fewer items than the requested total.
C2_ShortfallNeverPartial ==
    /\ StillShort => quiz.outcome = "shortfall" /\ quiz.returned = <<>>
    /\ Succeeded => Len(quiz.returned) >= Total(quiz.need)

C2_Witness ==
    /\ StillShort
    /\ quiz.outcome = "shortfall"
    /\ quiz.topups = 1
    /\ Len(merge_trim_to_counts(quiz.buckets, quiz.need)) = 1
    /\ Total(quiz.need) = 2

FirstPassShort == \E t \in Types : quiz.have[t] < quiz.need[t]

ScopedToMissing ==
    \A t \in Types :
        quiz.topup_req[t] = IF quiz.need[t] > quiz.have[t]
                            THEN quiz.need[t] - quiz.have[t] ELSE 0

\* C3: a first pass that leaves a type short is followed by exactly one
\* top-up dispatch, started once the primary dispatch has returned, and asking
\* for max(0, requested - valid) items of each type; there is no top-up when
\* no type is short, and never a second one.
C3_OneScopedTopUp ==
    /\ [](/\ quiz.topups <= 1
          /\ quiz.stage = "primary" => quiz.topups = 0
          /\ quiz.stage = "topup" =>
                quiz.topups = 1 /\ FirstPassShort /\ ScopedToMissing
          /\ (quiz.stage = "done" /\ quiz.outcome \in {"ok", "shortfall"}) =>
                /\ quiz.topups = 1 <=> FirstPassShort
                /\ quiz.topups = 1 => ScopedToMissing)
    /\ [][quiz'.topups # quiz.topups =>
            /\ quiz.stage = "primary"
            /\ pc[1] = "idle"
            /\ job[1].result = "content"
            /\ job[1].ndisp = 1
            /\ job'[1].ndisp = 2]_vars

C3_Witness ==
    /\ Succeeded
    /\ quiz.topups = 1
    /\ quiz.need["mcq"] = 1
    /\ quiz.have["mcq"] = 1
    /\ quiz.topup_req["mcq"] = 0
    /\ quiz.need["true_false"] = 1
    /\ quiz.have["true_false"] = 0
    /\ quiz.topup_req["true_false"] = 1

\* How much of the request is left to do: the stages ahead, the candidates
\* ahead in the running call_groq, and the steps ahead for the current
\* candidate (its first POST, then a wait and a POST per retry).
StepsLeft ==
    LET j == job[1]
        here == CASE pc[1] = "loop" -> 8
                  [] pc[1] = "reserve" -> 7
                  [] pc[1] = "await" -> 6
                  [] pc[1] = "backoff" -> 7 - 2 * j.attempt
                  [] pc[1] = "await_retry" -> 6 - 2 * j.attempt
                  [] OTHER -> 0
        call == CASE pc[1] = "idle" -> 0
                  [] pc[1] = "done" -> 1
                  [] OTHER -> 2 + 9 * (Len(j.todo) - j.idx) + here
        stage == CASE quiz.stage = "none" -> 3
                   [] quiz.stage = "primary" -> 2
                   [] quiz.stage = "topup" -> 1
                   [] OTHER -> 0
    IN  100 * stage + call

\* C4: every step of a request brings it nearer its end (so every call_groq
\* and every request ends, the provider answering each call); a call_groq
\* tries no candidate twice and issues at most 3 provider calls per candidate,
\* and a request makes at most 2 dispatches.
C4_BoundedWork ==
    /\ [](/\ StepsLeft >= 0
          /\ \A a, b \in 1..Len(job[1].todo) :
                job[1].todo[a] = job[1].todo[b] => a = b
          /\ job[1].posts <= 3
          /\ job[1].nposts <= 3 * Len(job[1].todo)
          /\ job[1].ndisp <= 2)
    /\ [][/\ StepsLeft' < StepsLeft
          /\ pc[1] \notin {"idle", "done"} => job'[1].idx >= job[1].idx]_vars

C4_Witness ==
    /\ quiz.stage = "topup"
    /\ job[1].ndisp = 2
    /\ pc[1] = "await_retry"
    /\ job[1].posts = 3

\* C22 as stated: when extract_json_array rejects an output that
\* generate_quiz parses, the primary one or the top-up's, the request ends
\* with the parse failure, which is neither the shortfall failure nor the
\* dispatch failure.
C22_ParseFailureSurfaced ==
    (quiz.stage = "done" /\ quiz.unparsed) => quiz.outcome = "parse_error"

(***************************************************************************)
(* Claims about call_groq.                                                 *)
(***************************************************************************)
\* C5 as stated: a call_groq that finds no model eligible when it starts
\* (choose_model returns None) makes no provider call and ends with the
\* budget-exhaustion failure, not with the dispatch failure.
C5_NoneEligibleRaisesBudgetExhausted ==
    \A c \in Callers :
        (pc[c] = "done" /\ job[c].none_eligible) =>
            /\ job[c].result = "budget_exhausted"
            /\ job[c].nposts = 0

\* C9 as stated: right after any reserve the request counters are within
\* their limits, whatever the interleaving of the callers.
C9_ReserveWithinLimits ==
    [][(\E c \in Callers : pc[c] = "reserve" /\ pc'[c] = "await")
          => (lim'.rpm_used <= GROQ_RPM /\ lim'.rpd_used <= GROQ_RPD)]_vars

\* A provider call of caller c begins: the first POST for a candidate, or a
\* retry POST.
CallBegins(c) ==
    \/ pc[c] = "reserve" /\ pc'[c] = "await"
    \/ pc[c] = "backoff" /\ pc'[c] = "await_retry"

\* C21 as stated: whatever the interleaving of the dispatches, no provider
\* call to a model, first attempt or retry, begins while that model is on
\* cooldown.
C21_NoCallOnCooldown ==
    [][\A c \in Callers :
          CallBegins(c) => ~is_model_on_cooldown(cooldown, now, Model(c))]_vars

\* No minute (day) boundary has passed since caller c reserved.
SameMinute(c) == lim.minute_epoch = job[c].reserved_on.minute_epoch
SameDay(c) == lim.day_epoch = job[c].reserved_on.day_epoch

\* C23 as stated: a reservation is followed by exactly one
\* adjust_after_response on every path on which the provider responds; a
\* call_groq that returns content, after a 5xx retry too, leaves tpm_used and
\* tpd_used at their value before the reserve plus the usage of the successful
\* response.
C23_OneAdjustPerReserve ==
    \A c \in Callers :
        /\ job[c].adjusts <= 1
        /\ pc[c] \in {"backoff", "await_retry"} => job[c].adjusts = 1
        /\ (pc[c] = "done" /\ job[c].result = "content") =>
              /\ job[c].adjusts = 1
              /\ SameMinute(c) =>
                    lim.tpm_used = job[c].reserved_on.tpm_used + job[c].used
              /\ SameDay(c) =>
                    lim.tpd_used = job[c].reserved_on.tpd_used + job[c].used

\* C24 as stated: every provider call, a 5xx retry included, begins with a
\* reserve of its own after a successful cooldown and can_afford check, so
\* that rpm_used and rpd_used count it.
C24_EveryCallReserved ==
    [][\A c \in Callers :
          CallBegins(c) =>
              /\ ~is_model_on_cooldown(cooldown, now, Model(c))
              /\ can_afford(lim, now, Estimate(c)) = ""
              /\ lim'.rpm_used = maybe_roll_windows(lim, now).rpm_used + 1
              /\ lim'.rpd_used = maybe_roll_windows(lim, now).rpd_used + 1]_vars

\* C25 as stated: when a provider call raises instead of returning a
\* response, its reservation has been released by the time call_groq
\* propagates the failure: the token counters no longer hold the estimate.
C25_RaiseReleasesReservation ==
    \A c \in Callers :
        (pc[c] = "done" /\ job[c].result = "exception") =>
            /\ job[c].adjusts >= 1
            /\ SameMinute(c) =>
                  lim.tpm_used < job[c].reserved_on.tpm_used + Estimate(c)
            /\ SameDay(c) =>
                  lim.tpd_used < job[c].reserved_on.tpd_used + Estimate(c)

\* Caller c calls adjust_after_response in this step.
Adjusts(c) == job'[c].adjusts = job[c].adjusts + 1

\* C26 as stated: an adjust_after_response for a reservation made before a
\* minute (day) rollover leaves the token counter of the new window as the
\* rollover and the calls reserved in the new window made it.
C26_AdjustLeavesNewWindow ==
    [][\A c \in Callers :
          Adjusts(c) =>
              /\ now_minute(now) # job[c].reserved_on.minute_epoch =>
                    lim'.tpm_used = maybe_roll_windows(lim, now).tpm_used
              /\ now_day(now) # job[c].reserved_on.day_epoch =>
                    lim'.tpd_used = maybe_roll_windows(lim, now).tpd_used]_vars

(***************************************************************************)
(* Claims about extract_json_array.                                        *)
(***************************************************************************)
\* C11 as stated: for a well-formed JSON array with prose before and after it
\* and an optional fence around it, extract_json_array returns that array.
C11_ExtractRecoversArray ==
    raw.step = 1 => raw.ok /\ raw.result = raw.array

(***************************************************************************)
(* Claims about the event loop.                                            *)
(***************************************************************************)
\* The generate_quiz request waits for the provider or sleeps in a backoff.
CallPending == pc[1] \in {"await", "backoff", "await_retry"}

\* C15: while a provider call or a retry backoff of a generate_quiz request
\* is pending, the handler of a queued socket event can be started and a
\* suspended handler can be resumed.
C15_PendingCallDoesNotBlock ==
    CallPending =>
        /\ events.queued # <<>> => ENABLED HandleEvent
        /\ Suspended > 0 => ENABLED ResumeHandler

(***************************************************************************)
(* Claims about grade_short_answer.                                        *)
(***************************************************************************)
\* An identification request has been graded.
IdentificationGraded == grade.stage = "done" /\ grade.by = "identification"

NoProviderCall == job[1].ndisp = 0 /\ job[1].nposts = 0 /\ pc[1] = "idle"

\* C13 as stated: identification is graded without a provider call;
\* "Mitochondria" against "the Mitochondria!" is correct and "Mitochondrion"
\* against it is incorrect.
C13_Original ==
    IdentificationGraded =>
        /\ NoProviderCall
        /\ grade.ref = TheMitochondria /\ grade.student = Mitochondria =>
              grade.is_correct
        /\ grade.ref = TheMitochondria /\ grade.student = Mitochondrion =>
              ~grade.is_correct

\* C13 amended: identification is graded without a provider call; against
\* "the Mitochondria!" both "Mitochondria" and "Mitochondrion" are incorrect
\* (the reference keeps its "the"), and "The-Mitochondria", which differs
\* from it only in case and in characters that are not alphanumeric, is
\* correct.
C13_IdentificationExact ==
    IdentificationGraded =>
        /\ NoProviderCall
        /\ grade.ref = TheMitochondria =>
              /\ grade.student = Mitochondria => ~grade.is_correct
              /\ grade.student = Mitochondrion => ~grade.is_correct
              /\ grade.student = <<"T", "h", "e", "-">> \o Mitochondria =>
                    grade.is_correct

C13_Witness ==
    /\ IdentificationGraded
    /\ NoProviderCall
    /\ grade.ref = TheMitochondria
    /\ grade.student # grade.ref
    /\ grade.is_correct

\* The alphanumeric tokens of an answer, case ignored.
WordsOf(answer) == Tokens(Lower(answer), <<>>)

\* C14: when call_groq raises while a short_answer or essay is graded and
\* the student and reference answers share at least 3 distinct tokens, the
\* response is is_correct = true.
C14_FallbackOnSharedTokens ==
    /\ grade.stage = "done"
    /\ grade.by = "fallback"
    /\ grade.type \in {"short_answer", "essay"}
    /\ Cardinality(WordsOf(grade.student) \cap WordsOf(grade.ref)) >= 3
    => grade.is_correct

\* call_groq was called and raised, and answers that share 3 tokens but
\* are far from each other as texts were graded correct.
C14_Witness ==
    /\ grade.stage = "done"
    /\ grade.by = "fallback"
    /\ job[1].ndisp = 1
    /\ grade.type = "essay"
    /\ Cardinality(WordsOf(grade.student) \cap WordsOf(grade.ref)) >= 3
    /\ ~RatioAtLeast(Lower(grade.student), Lower(grade.ref), 8, 10)
    /\ grade.is_correct

\* The model's output as _bool_from_text looks at it.
Cleaned == Lower(Strip(clean_model_output(grade.reply)))
SaysBoth == Contains(Cleaned, TrueWord) /\ Contains(Cleaned, FalseWord)
SaysNeither == ~Contains(Cleaned, TrueWord) /\ ~Contains(Cleaned, FalseWord)
BeginsWith(word) == Len(Cleaned) >= Len(word) /\ SubSeq(Cleaned, 1, Len(word)) = word
\* grade_short_answer has answered after reading the model's output.
ReplyRead == grade.stage = "done" /\ grade.by \in {"model", "lexical"}
LexicalVerdict == lexical_backup(grade.student, grade.ref)

\* C28 as stated: a cleaned output that contains both 'true' and 'false', or
\* neither, is ambiguous: the verdict is that of the lexical fallback.
C28_Original ==
    (ReplyRead /\ (SaysBoth \/ SaysNeither)) => grade.is_correct = LexicalVerdict

\* C28 amended: a cleaned output that contains neither 'true' nor 'false', or
\* contains both and begins with neither, is ambiguous: the verdict is that of
\* the lexical fallback; one that contains both and begins with 'true' (with
\* 'false') gives the verdict true (false).
C28_AmbiguousFallsBack ==
    ReplyRead =>
        /\ (SaysNeither \/ (SaysBoth /\ ~BeginsWith(TrueWord) /\ ~BeginsWith(FalseWord)))
              => grade.is_correct = LexicalVerdict
        /\ (SaysBoth /\ BeginsWith(TrueWord)) => grade.is_correct
        /\ (SaysBoth /\ BeginsWith(FalseWord)) => ~grade.is_correct

\* An output with both words that begins with neither was read, and the
\* lexical fallback found the answer correct.
C28_Witness ==
    /\ ReplyRead
    /\ SaysBoth
    /\ ~BeginsWith(TrueWord)
    /\ ~BeginsWith(FalseWord)
    /\ grade.type = "short_answer"
    /\ LexicalVerdict
    /\ grade.is_correct

\* The lexical fallback gave the verdict.
LexicallyGraded == grade.stage = "done" /\ grade.by \in {"fallback", "lexical"}
AnswerWords == WordsOf(norm_text(grade.student))
ReferenceWords == WordsOf(norm_text(grade.ref))
SharedWords == Cardinality(AnswerWords \cap ReferenceWords)

\* C29 as stated: answers that share at least 50% of the reference's distinct
\* tokens are correct, whatever the similarity ratio.
C29_Original ==
    (LexicallyGraded /\ 2 * SharedWords >= Cardinality(ReferenceWords))
        => grade.is_correct

\* C29 amended: answers that share at least 2 distinct tokens, and at least
\* 50% of the reference's distinct tokens, are correct, whatever the
\* similarity ratio.
C29_HalfOfReference ==
    (/\ LexicallyGraded
     /\ SharedWords >= 2
     /\ 2 * SharedWords >= Cardinality(ReferenceWords))
        => grade.is_correct

\* Two shared tokens, all of the reference's, in answers whose similarity
\* ratio is below 0.80.
C29_Witness ==
    /\ LexicallyGraded
    /\ SharedWords = 2
    /\ Cardinality(ReferenceWords) = 2
    /\ ~RatioAtLeast(Lower(norm_text(grade.student)), Lower(norm_text(grade.ref)), 8, 10)
    /\ grade.is_correct

(***************************************************************************)
(* Claims about _filter_and_partition.                                     *)
(***************************************************************************)
\* What the claim asks of an item in the mcq bucket, in the true_false
\* bucket, and in the other three.
SoundMcq(it) ==
    /\ it.question.k = "str"
    /\ it.choices_is_list
    /\ Len(it.choices) = 4
    /\ \A i \in 1..Len(it.choices) :
          it.choices[i].k = "str" /\ Len(norm_text(it.choices[i].s)) >= 3
    /\ \E i \in 1..Len(it.choices) : it.choices[i] = it.answer
SoundTf(it) == it.answer.k = "bool"
SoundText(it) ==
    /\ it.question.k = "str"
    /\ it.answer.k = "str"
    /\ Len(norm_text(it.answer.s)) > 0

\* The item of the input as the bucket loop meets it: normalized, and
\* repaired if it is an mcq.
Processed(it) ==
    IF it.type = "mcq" THEN repair_mcq(normalize_item(it)).val ELSE normalize_item(it)

RECURSIVE ComesInOrder(_, _)
\* Are the items of `bucket` items of `items`, in the order they have there?
ComesInOrder(bucket, items) ==
    IF bucket = <<>> THEN TRUE
    ELSE IF items = <<>> THEN FALSE
    ELSE IF Head(items).dict /\ Head(bucket) = Processed(Head(items))
    THEN ComesInOrder(Tail(bucket), Tail(items))
    ELSE ComesInOrder(bucket, Tail(items))

\* C27: after _filter_and_partition has returned every item of the mcq bucket has a
\* question, exactly 4 choices of normalized length >= 3 and an answer that
\* is one of them; every true_false item has a boolean answer; every
\* short_answer, identification and essay item has a question and an answer
\* that is not blank; every item is in the bucket of its type; and each
\* bucket has its items in the order of the input.
C27_BucketsSound ==
    (part.step = 1 /\ part.exc = "") =>
        \A t \in Types :
            /\ \A i \in 1..Len(part.buckets[t]) :
                  /\ part.buckets[t][i].type = t
                  /\ t = "mcq" => SoundMcq(part.buckets[t][i])
                  /\ t = "true_false" => SoundTf(part.buckets[t][i])
                  /\ t \in {"short_answer", "identification", "essay"} =>
                        SoundText(part.buckets[t][i])
            /\ ComesInOrder(part.buckets[t], part.items)

\* Two mcq items with one that is dropped between them, the second of them
\* repaired, and the buckets of two other types filled.
C27_Witness ==
    /\ part.step = 1
    /\ part.exc = ""
    /\ part.items = <<ItemMcqFive, ItemMcqShortChoice, ItemMcqNear>>
    /\ Len(part.buckets["mcq"]) = 2
    /\ part.buckets["mcq"][1].answer = Word("a", "a", "b")
    /\ part.buckets["mcq"][2].answer = Word("b", "b", "b")

(***************************************************************************)
(* Claims about _repair_mcq.                                               *)
(***************************************************************************)
IsStr(v) == v.k = "str"

\* Repair has run on an mcq item whose choices are a list.
Repaired == fix.step = 1 /\ fix.item.type = "mcq" /\ fix.item.choices_is_list

\* The places of the choices that equal the answer after normalization.
AnswerPlaces(choices, ans) ==
    {i \in 1..Len(choices) :
        IsStr(choices[i]) /\ norm_text(choices[i].s) = norm_text(ans.s)}

\* The item has more than 4 choices, one of which equals the answer after
\* normalization.
TooManyWithAnswer ==
    /\ Repaired
    /\ Len(fix.item.choices) > 4
    /\ IsStr(fix.item.answer)
    /\ AnswerPlaces(fix.item.choices, fix.item.answer) # {}

\* C12 as stated: exactly 4 choices are left, and a choice equal to the
\* answer is among them.
C12_Original ==
    TooManyWithAnswer =>
        /\ Len(fix.out.choices) = 4
        /\ AnswerPlaces(fix.out.choices, fix.item.answer) # {}

DistinctStrs(choices) ==
    {choices[i] : i \in {j \in 1..Len(choices) : IsStr(choices[j])}}

\* C12 amended: at most 4 choices are left, all of them distinct strs of the
\* item: the first choice equal to the answer comes first, and there are
\* exactly 4 when the item has at least 4 distinct str choices (as many as it
\* has otherwise).
C12_TrimKeepsAnswer ==
    TooManyWithAnswer =>
        LET first == CHOOSE i \in AnswerPlaces(fix.item.choices, fix.item.answer) :
                        \A j \in AnswerPlaces(fix.item.choices, fix.item.answer) : i <= j
        IN  /\ Len(fix.out.choices) =
                   Min(4, Cardinality(DistinctStrs(fix.item.choices)))
            /\ fix.out.choices[1] = fix.item.choices[first]
            /\ \A i \in 1..Len(fix.out.choices) :
                  fix.out.choices[i] \in DistinctStrs(fix.item.choices)
            /\ \A i, j \in 1..Len(fix.out.choices) :
                  i # j => fix.out.choices[i] # fix.out.choices[j]
            /\ fix.out.answer = fix.item.answer

\* Six choices, those equal to the answer in the last two places: repair
\* leaves 4 with the first of them in front.
C12_Witness ==
    /\ TooManyWithAnswer
    /\ Len(fix.item.choices) = 6
    /\ AnswerPlaces(fix.item.choices, fix.item.answer) = {5, 6}
    /\ fix.out.choices[1] = fix.item.choices[5]
    /\ Len(fix.out.choices) = 4
    /\ AnswerPlaces(fix.out.choices, fix.item.answer) # {}

\* The similarity of a choice to the answer, both normalized, as difflib
\* computes it for get_close_matches.
Similarity(choice, ans) == Score(norm_text(choice.s), norm_text(ans.s))

\* The places of the final choices whose similarity to the answer is at
\* least 0.6.
ClosePlaces ==
    {i \in 1..Len(fix.out.choices) :
        /\ IsStr(fix.out.choices[i])
        /\ ScoreAtLeast(Similarity(fix.out.choices[i], fix.item.answer), 6, 10)}

\* The answer of the item equals none of the final choices: each of them
\* has another normal form, or none.
AnswerMatchesNone ==
    /\ Repaired
    /\ IsStr(fix.item.answer)
    /\ \A i \in 1..Len(fix.out.choices) :
          \/ NormV(fix.out.choices[i]).exc # ""
          \/ NormV(fix.out.choices[i]).val # norm_text(fix.item.answer.s)

\* C16: when the answer equals none of the final choices after
\* normalization, _repair_mcq returns the item, and: if some choice has a
\* similarity of at least 0.6 to the answer, the answer becomes the exact
\* text of a choice no other choice is more similar than; when no choice
\* reaches 0.6 the answer is left as it was, and so is the whole item unless
\* it had more than 4 choices.  "Paris, France" with choices
\* "Paris, France.", "London", "Berlin", "Rome" becomes "Paris, France.".
C16_FuzzyAnswer ==
    /\ AnswerMatchesNone =>
          /\ fix.exc = ""
          /\ IF ClosePlaces # {}
             THEN \E i \in ClosePlaces :
                  /\ fix.out.answer = fix.out.choices[i]
                  /\ \A j \in 1..Len(fix.out.choices) :
                        IsStr(fix.out.choices[j]) =>
                            ~ScoreLess(Similarity(fix.out.choices[i], fix.item.answer),
                                       Similarity(fix.out.choices[j], fix.item.answer))
             ELSE /\ fix.out.answer = fix.item.answer
                  /\ Len(fix.item.choices) <= 4 => fix.out = fix.item
    /\ fix.step = 1 /\ fix.item = ItemParis =>
          fix.out = [ItemParis EXCEPT !.answer = StrV(Paris \o <<".">>)]

\* The answer was a near miss and is now the text of a choice that was not
\* normalized.
C16_Witness ==
    /\ AnswerMatchesNone
    /\ ClosePlaces # {}
    /\ fix.out.answer # fix.item.answer
    /\ \E i \in ClosePlaces : fix.out.answer = fix.out.choices[i]
    /\ \E i \in 1..Len(fix.out.choices) :
          ~ScoreAtLeast(Similarity(fix.out.choices[i], fix.item.answer), 6, 10)

(***************************************************************************)
(* Claims about the handling of provider errors in call_groq.              *)
(***************************************************************************)
\* This step is caller c handling the response to the first POST for a
\* candidate (resp' holds it).
Responded(c) ==
    /\ pc[c] = "await"
    /\ pc'[c] # "await"
    /\ job'[c].result # "exception"

\* This step is caller c handling the response to a retry POST.
RetryResponded(c) ==
    /\ pc[c] = "await_retry"
    /\ pc'[c] # "await_retry"
    /\ job'[c].result # "exception"

\* The reservation is released: the token counters go from the estimate to
\* the prompt tokens.
Released(c) ==
    lim' = adjust_after_response(lim, now, Estimate(c), in_tokens(job[c].prompt_len))

MovedOn(c) == job'[c].idx = job[c].idx + 1 /\ pc'[c] \in {"loop", "done"}

\* C17 as stated: every 429 or 403 response releases the reservation, puts
\* the model on cooldown and moves to the next candidate without a retry,
\* whatever the message says.
C17_RateStatusCoolsDown ==
    [][\A c \in Callers :
          Responded(c) /\ resp'[c].status \in {429, 403} =>
              /\ Released(c)
              /\ is_model_on_cooldown(cooldown', now, Model(c))
              /\ MovedOn(c)]_vars

\* C18 as stated: a first 500/502/503 response is followed by a retry of the
\* same model.
C18_Original ==
    [][\A c \in Callers :
          Responded(c) /\ resp'[c].status \in {500, 502, 503} =>
              /\ pc'[c] = "backoff"
              /\ job'[c].idx = job[c].idx]_vars

\* The error body of r holds a rate or quota keyword, in its message or in its
\* code.
HasKeyword(r) == r.hint # {} \/ r.code_hit

\* C18 amended: a first 500/502/503 response whose body has no rate or quota
\* keyword is followed by a retry of the same model; the backoff ends in a
\* POST to the same model; a retry answered 200 ends the call, with the
\* content of its body when it has one and with an exception otherwise; a
\* failed retry is followed by another while fewer than 2 retries were made,
\* and by the next candidate after the second.  A 500/502/503 whose body has
\* such a keyword moves to the next candidate at once.
C18_RetrySameModel ==
    [][\A c \in Callers :
          /\ Responded(c) /\ resp'[c].status \in {500, 502, 503} =>
                IF ~HasKeyword(resp'[c])
                THEN pc'[c] = "backoff" /\ job'[c].idx = job[c].idx
                ELSE MovedOn(c)
          /\ pc[c] = "backoff" /\ pc'[c] # "backoff" =>
                /\ pc'[c] = "await_retry"
                /\ job'[c].idx = job[c].idx
                /\ job'[c].posts = job[c].posts + 1
          /\ RetryResponded(c) =>
                IF resp'[c].status = 200
                THEN /\ pc'[c] = "done"
                     /\ job'[c].result =
                          IF resp'[c].body = "ok" THEN "content" ELSE "body_error"
                ELSE IF job[c].posts < 1 + NumBackoffs
                THEN pc'[c] = "backoff" /\ job'[c].idx = job[c].idx
                ELSE MovedOn(c) /\ job[c].posts = 1 + NumBackoffs]_vars

\* The second retry of a model answered 200 and call_groq returns its content.
C18_Witness ==
    \E c \in Callers :
        /\ pc[c] = "done"
        /\ job[c].result = "content"
        /\ resp[c].retry
        /\ job[c].posts = 1 + NumBackoffs

\* C19 as stated: a classified error whose message has a daily or quota
\* keyword puts the model on the 6-hour cooldown, and one whose message has a
\* per-minute keyword puts it on the 60-second cooldown.
C19_CooldownByMessage ==
    [][\A c \in Callers :
          Responded(c) /\ resp'[c].status # 200
             /\ (resp'[c].status \in {429, 403} \/ HasKeyword(resp'[c])) =>
              /\ "long" \in resp'[c].hint =>
                    cooldown'[Model(c)] = Max(cooldown[Model(c)], now + CooldownLong)
              /\ "short" \in resp'[c].hint /\ "long" \notin resp'[c].hint =>
                    cooldown'[Model(c)] = Max(cooldown[Model(c)], now + CooldownShort)]_vars

\* C20 as stated: the dispatch failure raised after at least one provider
\* call carries the status of the last response of that dispatch, retries
\* included.
C20_FailureCarriesLastResponse ==
    \A c \in Callers :
        pc[c] = "done" /\ job[c].result = "dispatch_failed" /\ job[c].nposts > 0 =>
            job[c].last_error = resp[c].status

(***************************************************************************)
(* Claims about the sanitizer.                                             *)
(***************************************************************************)
\* C10 as stated: sanitizing a sanitized text changes nothing.
C10_CleanIdempotent == txt.step = 2 => txt.twice = txt.once

====
